---------------------------- MODULE Spec2Model ----------------------------
(***************************************************************************)
(* Model of the OMFK training tools.                                       *)
(*                                                                         *)
(*   Tools/CoreMLTrainer/generate_data.py   layout conversion maps,        *)
(*                                          text conversion, synthetic     *)
(*                                          dataset generation             *)
(*   Tools/Testing/generate_test_cases.py   convert_text (second copy)     *)
(*   Tools/NgramTrainer/train_ngrams.py     trigram model training          *)
(*                                                                         *)
(* Representation.  A Python string is a sequence of characters; one       *)
(* character is a TLA+ string used as an atom (the Cyrillic and Hebrew     *)
(* letters are transliterated: "ru_p" is the letter the Russian PC layout  *)
(* has on key G).  Identifiers that the code splits or joins on "_"        *)
(* (layout ids, class names, map keys) are sequences of their "_"          *)
(* separated tokens: "ru_from_en" is <<"ru", "from", "en">>.  A Python     *)
(* dict is a function; its keys are its DOMAIN.                            *)
(***************************************************************************)
EXTENDS Integers, Sequences, FiniteSets, TLC

VARIABLES
    pc,         \* position of the running tool
    data,       \* json.load of the layout source: data.map is key code -> layout id ->
                \* modifier -> string, data.order the order of the key codes in the file
    args,       \* command line / call arguments
    maps,       \* result of load_layout_map: pair key -> list of candidate maps
    conv,       \* last convert_text call: candidate, text, result, round trip
    SEEDS,      \* module-level lexicons of generate_data.py: language -> list of words
    classes,    \* pure_classes and from_classes of main
    loop_i,     \* loop counter i of main
    output,     \* the rows written to the output file after the header
    sample,     \* last generate_sample call: its random draws and what it returned
    input_file, \* train_ngrams.py: the file at args.input (exists, decodes, its lines)
    targs,      \* train_ngrams.py: args.lang and args.smoothing_k
    trigram_counts, \* the Counter of train_model
    model,      \* the model dict main holds
    valid,      \* whether validate_model was called, what it returned and warned about
    saved,      \* the dict save_model has written to args.output, {} before
    exit_status,    \* exit status of the process: -1 while it runs
    error,      \* the exception that ended the process, "" if none
    norm,       \* last normalize_text call: text, lang, result
    uni,        \* train_unigrams.py: arguments, file, position in it, counts, result
    dl,         \* download_corpus.py: datasets, the workers' positions, buffers and
                \* counts, the output files, main's position
    rt,         \* tests/run_tests.py: system layouts, processes, main's position
    fit,        \* train.py / beam_train.py: the epoch loop's variables and checkpoint
    bpe         \* bpe_server.py: standard input left, standard output written

\* the variables of the trigram trainer
trainvars == <<input_file, targs, trigram_counts, model, valid, saved, exit_status, error,
               norm>>

\* the variables of the other tools, one record each
toolvars == <<uni, dl, rt, fit, bpe>>

vars == <<pc, data, args, maps, conv, SEEDS, classes, loop_i, output, sample, trainvars,
          toolvars>>

\* the variables of the dataset generator's main
genvars == <<SEEDS, classes, loop_i, output, sample>>

---------------------------------------------------------------------------
(* Python values *)

\* None (a value no string and no dict is equal to)
None == <<"<None>">>

\* bool(x) of a string or None: None and "" are false
Truthy(x) == x # None /\ x # << >>

\* d.get(k, default)
DictGet(d, k, default) == IF k \in DOMAIN d THEN d[k] ELSE default

\* d[k] = v
DictPut(d, k, v) == [x \in (DOMAIN d) \cup {k} |-> IF x = k THEN v ELSE d[x]]

\* the empty dict {}
EmptyDict == << >>

---------------------------------------------------------------------------
(* Layout source *)

en_us == <<"en", "us">>
ru_pc == <<"ru", "pc">>
ru_phonetic_yasherty == <<"ru", "phonetic", "yasherty">>
he_standard == <<"he", "standard">>
he_qwerty == <<"he", "qwerty">>
he_pc == <<"he", "pc">>

Langs == {"en", "ru", "he"}

\* the layouts preset of load_layout_map
LayoutPresets ==
    [l \in Langs |->
        CASE l = "en" -> <<en_us>>
          [] l = "ru" -> <<ru_pc, ru_phonetic_yasherty>>
          [] l = "he" -> <<he_standard, he_qwerty, he_pc>>]

\* x in list
InList(x, list) == \E i \in 1..Len(list) : list[i] = x

\* layouts after the focus_layout override
\* the presets left as they are whatever the focus layout
FocusedLayouts_ignored(focus_layout) == LayoutPresets

FocusedLayouts(focus_layout) ==
    IF focus_layout # << >>
    THEN LET focus_lang == IF Len(focus_layout) > 1 THEN Head(focus_layout)
                           ELSE focus_layout[1]
         IN  IF focus_lang \in DOMAIN LayoutPresets
                /\ InList(focus_layout, LayoutPresets[focus_lang])
             THEN [LayoutPresets EXCEPT ![focus_lang] = <<focus_layout>>]
             ELSE LayoutPresets
    ELSE LayoutPresets

\* get_char(k, l_id, mod) over key_map
get_char(km, k, l_id, mod) ==
    LET val == DictGet(DictGet(km, k, EmptyDict), l_id, EmptyDict)
    IN  IF DOMAIN val # {} THEN DictGet(val, mod, None) ELSE None

\* MapKey with the shift entry pointing at the target's base character
MapKey_shift_to_base(km, key_code, s_layout, t_layout, mapping) ==
    LET s_char == get_char(km, key_code, s_layout, "n")
        t_char == get_char(km, key_code, t_layout, "n")
        m1 == IF Truthy(s_char) /\ Truthy(t_char)
              THEN DictPut(mapping, s_char, t_char) ELSE mapping
        s_char_s == get_char(km, key_code, s_layout, "s")
        t_char_s == get_char(km, key_code, t_layout, "s")
    IN  IF Truthy(s_char_s) /\ Truthy(t_char_s)
        THEN DictPut(m1, s_char_s, t_char) ELSE m1

\* MapKey that keeps the first entry of a source character (setdefault)
MapKey_keep_first(km, key_code, s_layout, t_layout, mapping) ==
    LET s_char == get_char(km, key_code, s_layout, "n")
        t_char == get_char(km, key_code, t_layout, "n")
        m1 == IF Truthy(s_char) /\ Truthy(t_char) /\ s_char \notin DOMAIN mapping
              THEN DictPut(mapping, s_char, t_char) ELSE mapping
        s_char_s == get_char(km, key_code, s_layout, "s")
        t_char_s == get_char(km, key_code, t_layout, "s")
    IN  IF Truthy(s_char_s) /\ Truthy(t_char_s) /\ s_char_s \notin DOMAIN m1
        THEN DictPut(m1, s_char_s, t_char_s) ELSE m1

\* MapKey with "or" for "and" in both tests
MapKey_or(km, key_code, s_layout, t_layout, mapping) ==
    LET s_char == get_char(km, key_code, s_layout, "n")
        t_char == get_char(km, key_code, t_layout, "n")
        m1 == IF Truthy(s_char) \/ Truthy(t_char)
              THEN DictPut(mapping, s_char, t_char) ELSE mapping
        s_char_s == get_char(km, key_code, s_layout, "s")
        t_char_s == get_char(km, key_code, t_layout, "s")
    IN  IF Truthy(s_char_s) \/ Truthy(t_char_s)
        THEN DictPut(m1, s_char_s, t_char_s) ELSE m1

\* body of the key_code loop: the normal entry, then the shift entry
MapKey(km, key_code, s_layout, t_layout, mapping) ==
    LET s_char == get_char(km, key_code, s_layout, "n")
        t_char == get_char(km, key_code, t_layout, "n")
        m1 == IF Truthy(s_char) /\ Truthy(t_char)
              THEN DictPut(mapping, s_char, t_char) ELSE mapping
        s_char_s == get_char(km, key_code, s_layout, "s")
        t_char_s == get_char(km, key_code, t_layout, "s")
    IN  IF Truthy(s_char_s) /\ Truthy(t_char_s)
        THEN DictPut(m1, s_char_s, t_char_s) ELSE m1

\* for key_code in key_map: ...   (keys is the part of the key order still to visit)
RECURSIVE KeyLoop(_, _, _, _, _)
KeyLoop(km, keys, s_layout, t_layout, mapping) ==
    IF keys = << >> THEN mapping
    ELSE KeyLoop(km, Tail(keys), s_layout, t_layout,
                 MapKey(km, Head(keys), s_layout, t_layout, mapping))

\* the candidate map of one (s_layout, t_layout) pair
BuildMapping(d, s_layout, t_layout) ==
    KeyLoop(d.map, d.order, s_layout, t_layout, EmptyDict)

\* TgtLoop with "mapping = {}" moved above the loop: entries of earlier target
\* variants stay in the map
RECURSIVE TgtLoopKeeping(_, _, _, _, _)
TgtLoopKeeping(d, s_layout, tgt_layout_list, list, mapping) ==
    IF tgt_layout_list = << >> THEN list
    ELSE LET m == KeyLoop(d.map, d.order, s_layout, Head(tgt_layout_list), mapping)
         IN  TgtLoopKeeping(d, s_layout, Tail(tgt_layout_list), Append(list, m), m)

TgtLoop_merged(d, s_layout, tgt_layout_list, list) ==
    TgtLoopKeeping(d, s_layout, tgt_layout_list, list, EmptyDict)

\* the loop appending a mapping only when it is not empty
RECURSIVE TgtLoop_nonempty_only(_, _, _, _)
TgtLoop_nonempty_only(d, s_layout, tgt_layout_list, list) ==
    IF tgt_layout_list = << >> THEN list
    ELSE LET mapping == BuildMapping(d, s_layout, Head(tgt_layout_list))
         IN  TgtLoop_nonempty_only(d, s_layout, Tail(tgt_layout_list),
                                   IF mapping # EmptyDict THEN Append(list, mapping)
                                   ELSE list)

\* for t_layout in tgt_layout_list: ... maps[pair_key].append(mapping)
RECURSIVE TgtLoop(_, _, _, _)
TgtLoop(d, s_layout, tgt_layout_list, list) ==
    IF tgt_layout_list = << >> THEN list
    ELSE TgtLoop(d, s_layout, Tail(tgt_layout_list),
                 Append(list, BuildMapping(d, s_layout, Head(tgt_layout_list))))

\* for s_layout in src_layout_list: ...
RECURSIVE SrcLoop(_, _, _, _)
SrcLoop(d, src_layout_list, tgt_layout_list, list) ==
    IF src_layout_list = << >> THEN list
    ELSE SrcLoop(d, Tail(src_layout_list), tgt_layout_list,
                 TgtLoop(d, Head(src_layout_list), tgt_layout_list, list))

\* pair_key = f"{tgt_lang}_from_{src_lang}"
PairKey(tgt_lang, src_lang) == <<tgt_lang, "from", src_lang>>

\* load_layout_map(json_path, focus_layout): every ordered pair of distinct languages
\* is visited once, so its list starts empty and receives the candidates of that pair
load_layout_map(d, focus_layout) ==
    LET layouts == FocusedLayouts(focus_layout)
        pairs == {p \in Langs \X Langs : p[1] # p[2]}
    IN  [pair_key \in {PairKey(p[2], p[1]) : p \in pairs} |->
            SrcLoop(d, layouts[pair_key[3]], layouts[pair_key[1]], << >>)]

\* convert_text(text, mapping) of generate_test_cases.py
RECURSIVE convert_text_cases(_, _)
convert_text_cases(text, mapping) ==
    IF text = << >> THEN << >>
    ELSE DictGet(mapping, <<Head(text)>>, <<Head(text)>>)
         \o convert_text_cases(Tail(text), mapping)

\* convert_text with mapping.get(c, ""): an unmapped character is dropped
RECURSIVE convert_text_drop(_, _)
convert_text_drop(text, mapping) ==
    IF text = << >> THEN << >>
    ELSE DictGet(mapping, <<Head(text)>>, << >>) \o convert_text_drop(Tail(text), mapping)

\* convert_text joining the characters in reverse order
RECURSIVE convert_text_reversed(_, _)
convert_text_reversed(text, mapping) ==
    IF text = << >> THEN << >>
    ELSE convert_text_reversed(Tail(text), mapping)
         \o DictGet(mapping, <<Head(text)>>, <<Head(text)>>)

\* convert_text(text, mapping): "".join(mapping.get(c, c) for c in text)
RECURSIVE convert_text(_, _)
convert_text(text, mapping) ==
    IF text = << >> THEN << >>
    ELSE DictGet(mapping, <<Head(text)>>, <<Head(text)>>) \o convert_text(Tail(text), mapping)

---------------------------------------------------------------------------
(* Layout sources the tools are run on *)

KeyG == "KeyG"
KeyH == "KeyH"
Keys == {KeyG, KeyH}

Layouts == {en_us, ru_pc, ru_phonetic_yasherty, he_standard, he_qwerty, he_pc}

\* the letters a layout has on keys G and H (he_pc has the letters of he_standard)
Alphabet(l) ==
    CASE l = en_us -> <<"g", "h">>
      [] l = ru_pc -> <<"ru_p", "ru_r">>
      [] l = ru_phonetic_yasherty -> <<"ru_g", "ru_h">>
      [] l = he_standard -> <<"he_ayin", "he_yod">>
      [] l = he_qwerty -> <<"he_gimel", "he_he">>
      [] l = he_pc -> <<"he_ayin", "he_yod">>

Letters(l) == {Alphabet(l)[i] : i \in 1..2}

\* a layout that has no entry under a key
Absent == [absent |-> TRUE]

\* the per-layout object of one key: "n" alone, or "n" and "s"
Cells(l) ==
    {[n |-> <<a>>] : a \in Letters(l)}
    \cup {[n |-> <<a>>, s |-> <<b>>] : a \in Letters(l), b \in Letters(l)}

\* objects that define no character: {} and {"n": ""}
DegenerateCells == {EmptyDict, [n |-> << >>]}

\* the usual column of a layout: first letter on G, second on H, no shift entry
StdColumn(l) == [k \in Keys |-> [n |-> <<Alphabet(l)[IF k = KeyG THEN 1 ELSE 2]>>]]

AbsentColumn == [k \in Keys |-> Absent]

\* every column of a layout over the two keys
Columns(l) == [Keys -> Cells(l) \cup {Absent}]

\* data of a layout source from its columns: a layout appears under a key
\* only where its column has a cell
MakeData(col) ==
    [order |-> <<KeyG, KeyH>>,
     map   |-> [k \in Keys |->
                  [l \in {x \in Layouts : col[x][k] # Absent} |-> col[l][k]]]]

\* a layout source with the given column for each layout
Source(c_en_us, c_ru_pc, c_ru_ph, c_he_std, c_he_qw, c_he_pc) ==
    MakeData([l \in Layouts |->
        CASE l = en_us -> c_en_us
          [] l = ru_pc -> c_ru_pc
          [] l = ru_phonetic_yasherty -> c_ru_ph
          [] l = he_standard -> c_he_std
          [] l = he_qwerty -> c_he_qw
          [] l = he_pc -> c_he_pc])

\* present with its usual column, or missing from the source
StdOrAbsent(l) == {StdColumn(l), AbsentColumn}

\* layout sources for the map construction: en_us arbitrary, degenerate objects
\* included; ru_pc arbitrary; he_standard and he_pc usual or missing
LoadSources ==
    {Source(a, b, StdColumn(ru_phonetic_yasherty), c, StdColumn(he_qwerty), d) :
        a \in [Keys -> Cells(en_us) \cup DegenerateCells \cup {Absent}],
        b \in Columns(ru_pc),
        c \in StdOrAbsent(he_standard),
        d \in StdOrAbsent(he_pc)}

\* values of --focus-layout: none, presets, a language alone, unknown ids
NoFocus == << >>
FocusChoices == {NoFocus, ru_pc, he_qwerty, <<"he">>, <<"fr", "azerty">>, <<"ru", "dvorak">>}

---------------------------------------------------------------------------
(* Map construction *)

NoConv == [s_layout |-> << >>, t_layout |-> << >>, mapping |-> EmptyDict,
           text |-> << >>, out |-> << >>, out_cases |-> << >>, back |-> << >>]

NoArgs == [focus_layout |-> NoFocus, balance |-> 0, count |-> 0, max_phrase_len |-> 1,
           corpus_dir |-> None]

\* the other tools' variables while they do not run
ToolsIdle ==
    /\ uni = EmptyDict
    /\ dl = EmptyDict
    /\ rt = EmptyDict
    /\ fit = EmptyDict
    /\ bpe = EmptyDict

\* validate_model not called yet
NotValidated == [called |-> FALSE, ok |-> FALSE, warnings |-> {}]

\* normalize_text not called yet
NoNorm == [text |-> << >>, lang |-> "", called |-> FALSE, raised |-> FALSE, result |-> << >>]

\* longest text normalized
MaxNormLen == 3

\* the trainer's variables while another tool runs
TrainIdle ==
    /\ input_file = [exists |-> FALSE, utf8 |-> TRUE, lines |-> << >>]
    /\ targs = [lang |-> "en", smoothing_k |-> 1]
    /\ trigram_counts = EmptyDict
    /\ model = EmptyDict
    /\ valid = NotValidated
    /\ saved = EmptyDict
    /\ exit_status = -1
    /\ error = ""
    /\ norm = NoNorm

\* the generator's variables while another tool runs
GenIdle ==
    /\ SEEDS = EmptyDict
    /\ classes = EmptyDict
    /\ loop_i = 0
    /\ output = << >>
    /\ sample = EmptyDict

\* maps = load_layout_map(args.layouts, focus_layout=args.focus_layout)
LoadLayoutMap ==
    /\ pc = "start"
    /\ maps' = load_layout_map(data, args.focus_layout)
    /\ pc' = "loaded"
    /\ UNCHANGED <<data, args, conv, genvars>>
    /\ UNCHANGED trainvars
    /\ UNCHANGED toolvars

InitLoad ==
    /\ pc = "start"
    /\ data \in LoadSources
    /\ args \in {[NoArgs EXCEPT !.focus_layout = f] : f \in {NoFocus, he_qwerty}}
    /\ maps = EmptyDict
    /\ conv = NoConv
    /\ GenIdle
    /\ TrainIdle
    /\ ToolsIdle

NextLoad == LoadLayoutMap

SpecLoad == InitLoad /\ [][NextLoad]_vars

---------------------------------------------------------------------------
(* Text conversion *)

\* longest text converted
MaxLen == 2

SeqsUpTo(S, n) == UNION {[1..k -> S] : k \in 0..n}

\* a character no layout has on a key
Space == " "

\* texts typed in either layout of a pair, with spaces
Texts(s_layout, t_layout) ==
    SeqsUpTo(Letters(s_layout) \cup Letters(t_layout) \cup {Space}, MaxLen)

\* columns of ru_pc for the conversion runs: usual, missing, with shift entries, key H only
ShiftColumn(l) ==
    [k \in Keys |-> IF k = KeyG THEN [n |-> <<Alphabet(l)[1]>>, s |-> <<Alphabet(l)[2]>>]
                    ELSE [n |-> <<Alphabet(l)[2]>>, s |-> <<Alphabet(l)[1]>>]]

OnlyH(l) == [k \in Keys |-> IF k = KeyG THEN Absent ELSE [n |-> <<Alphabet(l)[1]>>]]

\* layout sources for the conversion runs: en_us arbitrary
ConvSources ==
    {Source(a, b, StdColumn(ru_phonetic_yasherty), StdColumn(he_standard),
            StdColumn(he_qwerty), StdColumn(he_pc)) :
        a \in Columns(en_us),
        b \in {StdColumn(ru_pc), AbsentColumn, ShiftColumn(ru_pc), OnlyH(ru_pc)}}

\* the candidate of (s_layout, t_layout) = (layouts[src][si], layouts[tgt][ti]) in the
\* list that load_layout_map stored under f"{tgt}_from_{src}"
CandidateOf(m, layouts, src_lang, tgt_lang, si, ti) ==
    m[PairKey(tgt_lang, src_lang)][(si - 1) * Len(layouts[tgt_lang]) + ti]

\* a text is converted with one candidate of a language pair, and the result is
\* converted with the candidate of the same two layouts in the other direction
Convert ==
    /\ pc = "loaded"
    /\ \E src_lang \in Langs, tgt_lang \in Langs :
         /\ src_lang # tgt_lang
         /\ LET layouts == FocusedLayouts(args.focus_layout)
            IN  \E si \in 1..Len(layouts[src_lang]), ti \in 1..Len(layouts[tgt_lang]) :
                  LET s_layout == layouts[src_lang][si]
                      t_layout == layouts[tgt_lang][ti]
                      mapping == CandidateOf(maps, layouts, src_lang, tgt_lang, si, ti)
                      reverse == CandidateOf(maps, layouts, tgt_lang, src_lang, ti, si)
                  IN  \E text \in Texts(s_layout, t_layout) :
                        conv' = [s_layout |-> s_layout, t_layout |-> t_layout,
                                 mapping |-> mapping,
                                 text |-> text,
                                 out |-> convert_text(text, mapping),
                                 out_cases |-> convert_text_cases(text, mapping),
                                 back |-> convert_text(convert_text(text, mapping), reverse)]
    /\ pc' = "converted"
    /\ UNCHANGED <<data, args, maps, genvars>>
    /\ UNCHANGED trainvars
    /\ UNCHANGED toolvars

InitConv ==
    /\ pc = "start"
    /\ data \in ConvSources
    /\ args = NoArgs
    /\ maps = EmptyDict
    /\ conv = NoConv
    /\ GenIdle
    /\ TrainIdle
    /\ ToolsIdle

NextConv == LoadLayoutMap \/ Convert

SpecConv == InitConv /\ [][NextConv]_vars

---------------------------------------------------------------------------
(* Dataset generation: generate_sample and main of generate_data.py *)

\* CLASSES
CLASSES == << <<"ru">>, <<"en">>, <<"he">>,
             <<"ru", "from", "en">>, <<"he", "from", "en">>,
             <<"en", "from", "ru">>, <<"en", "from", "he">>,
             <<"he", "from", "ru">>, <<"ru", "from", "he">> >>

\* the lexicons the module starts with: words over the letters of the layouts
DefaultSeeds ==
    [l \in Langs |->
        CASE l = "en" -> << <<"g">>, <<"h", "g">> >>
          [] l = "ru" -> << <<"ru_p", "ru_r">>, <<"ru_g">> >>
          [] l = "he" -> << <<"he_ayin">>, <<"he_gimel", "he_yod">> >>]

\* the name of a language given as a one-token identifier
Lang(name) == name[1]

\* " ".join(words)
RECURSIVE JoinSpace(_)
JoinSpace(words) ==
    IF words = << >> THEN << >>
    ELSE IF Len(words) = 1 THEN words[1]
    ELSE words[1] \o <<Space>> \o JoinSpace(Tail(words))

\* name.split('_from_'): the parts between the "from" tokens
RECURSIVE SplitFrom(_)
SplitFrom(name) ==
    IF \E j \in 2..(Len(name) - 1) : name[j] = "from"
    THEN LET j == CHOOSE j \in 2..(Len(name) - 1) :
                     name[j] = "from" /\ \A h \in 2..(j - 1) : name[h] # "from"
         IN  <<SubSeq(name, 1, j - 1)>> \o SplitFrom(SubSeq(name, j + 1, Len(name)))
    ELSE <<name>>

\* '_from_' in c
HasFrom(name) == \E j \in 2..(Len(name) - 1) : name[j] = "from"

\* class_name in ['ru', 'en', 'he']
IsPure(class_name) == class_name \in {<<"ru">>, <<"en">>, <<"he">>}

\* the language whose lexicon generate_sample draws from
LexiconLang(class_name) ==
    IF IsPure(class_name) THEN Lang(class_name) ELSE Lang(SplitFrom(class_name)[1])

\* AvailableMaps with the class name itself as the map key
AvailableMaps_uninverted(class_name, m) == DictGet(m, class_name, << >>)

\* the list generate_sample chooses its map from
AvailableMaps(class_name, m) ==
    LET parts == SplitFrom(class_name)
        intended_lang == parts[1]
        typed_layout_lang == parts[2]
        map_key == typed_layout_lang \o <<"from">> \o intended_lang
    IN  DictGet(m, map_key, << >>)

\* generate_sample that falls back to the unconverted phrase when no map is available
generate_sample_passthrough(class_name, m, seeds, word_idx, map_idx) ==
    LET words == [j \in 1..Len(word_idx) |-> seeds[LexiconLang(class_name)][word_idx[j]]]
    IN  IF IsPure(class_name) \/ AvailableMaps(class_name, m) = << >>
        THEN [text |-> JoinSpace(words), label |-> class_name]
        ELSE [text |-> convert_text(JoinSpace(words), AvailableMaps(class_name, m)[map_idx]),
              label |-> class_name]

\* generate_sample(class_name, maps, max_phrase_len) with its random draws given:
\* word_idx are the words chosen from the lexicon (num_words of them), map_idx is
\* the candidate chosen from the available maps
generate_sample(class_name, m, seeds, word_idx, map_idx) ==
    IF IsPure(class_name)
    THEN LET src_lang == Lang(class_name)
             words == [j \in 1..Len(word_idx) |-> seeds[src_lang][word_idx[j]]]
         IN  [text |-> JoinSpace(words), label |-> class_name]
    ELSE LET parts == SplitFrom(class_name)
             intended_lang == parts[1]
             available_maps == AvailableMaps(class_name, m)
         IN  IF available_maps = << >>
             THEN [text |-> <<"x">>, label |-> class_name]
             ELSE LET mapping == available_maps[map_idx]
                      words == [j \in 1..Len(word_idx) |->
                                   seeds[Lang(intended_lang)][word_idx[j]]]
                      text == JoinSpace(words)
                  IN  [text |-> convert_text(text, mapping), label |-> class_name]

\* the random draws generate_sample can make for a class
WordDraws(class_name, seeds, max_phrase_len) ==
    UNION {[1..num_words -> 1..Len(seeds[LexiconLang(class_name)])] :
              num_words \in 1..max_phrase_len}

MapDraws(class_name, m) ==
    IF IsPure(class_name) \/ AvailableMaps(class_name, m) = << >> THEN {1}
    ELSE 1..Len(AvailableMaps(class_name, m))

\* what the last call drew and returned
SampleRecord(class_name, m, seeds, word_idx, map_idx) ==
    [class_name |-> class_name,
     words |-> [j \in 1..Len(word_idx) |-> seeds[LexiconLang(class_name)][word_idx[j]]],
     ret |-> generate_sample(class_name, m, seeds, word_idx, map_idx)]

\* values of --balance and of random.random(), in hundredths: random() is below 1.0
BalanceValues == {0, 50, 100}
RandomValues == {0, 50, 99}

\* the comparison the other way round
PickPure_inverted(r, balance) == r > balance

\* random.random() < args.balance
PickPure(r, balance) == r < balance

\* the focus branch without its filter
FocusedFrom_unfiltered(from_classes, focus_lang) == from_classes

\* list filter of the focus branch: the from-classes that involve focus_lang
RECURSIVE FocusedFrom(_, _)
FocusedFrom(from_classes, focus_lang) ==
    IF from_classes = << >> THEN << >>
    ELSE LET c == Head(from_classes)
             intended == SplitFrom(c)[1]
             typed == SplitFrom(c)[2]
             rest == FocusedFrom(Tail(from_classes), focus_lang)
         IN  IF intended = focus_lang \/ typed = focus_lang THEN <<c>> \o rest ELSE rest

\* [c for c in CLASSES if '_from_' in c]
AllFromClasses == SelectSeq(CLASSES, HasFrom)

\* pure_classes and from_classes after the focus branch of main
ClassLists(focus_layout) ==
    LET unfocused == [pure |-> << <<"ru">>, <<"en">>, <<"he">> >>, from |-> AllFromClasses]
    IN  IF focus_layout # << >>
        THEN LET focus_lang == IF Len(focus_layout) > 1 THEN <<Head(focus_layout)>>
                               ELSE focus_layout
             IN  IF focus_lang \in {<<"ru">>, <<"en">>, <<"he">>}
                 THEN [pure |-> <<focus_lang>>,
                       from |-> FocusedFrom(AllFromClasses, focus_lang)]
                 ELSE unfocused
        ELSE unfocused

\* line.strip().split(): the maximal runs of characters other than whitespace
RECURSIVE SplitWords(_)
SplitWords(line) ==
    IF line = << >> THEN << >>
    ELSE IF Head(line) = Space THEN SplitWords(Tail(line))
    ELSE LET ends == {j \in 1..Len(line) : j = Len(line) \/ line[j + 1] = Space}
             e == CHOOSE j \in ends : \A h \in ends : j <= h
         IN  <<SubSeq(line, 1, e)>> \o SplitWords(SubSeq(line, e + 1, Len(line)))

\* 2 < len(p) < 20
KeepWord(p) == 2 < Len(p) /\ Len(p) < 20

\* the words list built from the lines of one corpus file
RECURSIVE CorpusWords(_)
CorpusWords(lines) ==
    IF lines = << >> THEN << >>
    ELSE SelectSeq(SplitWords(Head(lines)), KeepWord) \o CorpusWords(Tail(lines))

\* the loop over ['ru', 'en', 'he'] of the corpus branch: a language whose file exists
\* and yields words gets them as its lexicon, in the module-level SEEDS
RECURSIVE CorpusLoop(_, _, _)
CorpusLoop(seeds, dir, langs) ==
    IF langs = << >> THEN seeds
    ELSE LET lang == Head(langs)
             words == IF lang \in DOMAIN dir THEN CorpusWords(dir[lang]) ELSE << >>
         IN  CorpusLoop(IF words # << >> THEN DictPut(seeds, lang, words) ELSE seeds,
                        dir, Tail(langs))

\* the files {lang}.txt of the corpus directory, as lists of lines: en.txt has a word with
\* a comma and a quote and a word too short to keep, he.txt has only short words and an
\* empty line, and ru.txt does not exist
CorpusFiles(corpus_dir) ==
    [en |-> << <<"g", ",", "\"", Space, "h", "g">> >>,
     he |-> << <<Space, "he_ayin", Space, Space, "he_yod", "he_gimel">>, << >> >>]

\* lines 168-186 of main: if args.corpus_dir: ...
LoadCorpus ==
    /\ pc = "loaded"
    /\ SEEDS' = IF Truthy(args.corpus_dir)
                THEN CorpusLoop(SEEDS, CorpusFiles(args.corpus_dir), <<"ru", "en", "he">>)
                ELSE SEEDS
    /\ pc' = "seeded"
    /\ UNCHANGED <<data, args, maps, conv, classes, loop_i, output, sample>>
    /\ UNCHANGED trainvars
    /\ UNCHANGED toolvars

\* the field written for a text: quoted, quotes doubled, when it has a comma or a quote
RECURSIVE DoubleQuotes(_)
DoubleQuotes(text) ==
    IF text = << >> THEN << >>
    ELSE (IF Head(text) = "\"" THEN <<"\"", "\"">> ELSE <<Head(text)>>)
         \o DoubleQuotes(Tail(text))

\* the field quoted with its quotes left single
CsvField_undoubled(text) ==
    IF \E j \in 1..Len(text) : text[j] = "," \/ text[j] = "\""
    THEN <<"\"">> \o text \o <<"\"">>
    ELSE text

CsvField(text) ==
    IF \E j \in 1..Len(text) : text[j] = "," \/ text[j] = "\""
    THEN <<"\"">> \o DoubleQuotes(text) \o <<"\"">>
    ELSE text

\* the line "text,label"
Header == [text |-> <<"t", "e", "x", "t">>, label |-> <<"label">>]

\* lines 188-210: the class lists are fixed, the file is opened, the header written
SelectClasses ==
    /\ pc = "seeded"
    /\ classes' = ClassLists(args.focus_layout)
    /\ output' = <<Header>>
    /\ loop_i' = 0
    /\ pc' = "loop"
    /\ UNCHANGED <<data, args, maps, conv, SEEDS, sample>>
    /\ UNCHANGED trainvars
    /\ UNCHANGED toolvars

\* one pass of the loop body, lines 211-224
GenerateRow ==
    /\ pc = "loop"
    /\ loop_i < args.count
    /\ \E r \in RandomValues :
         LET list == IF PickPure(r, args.balance) THEN classes.pure ELSE classes.from
         IN  \E c \in 1..Len(list) :
               LET cls == list[c]
               IN  \E word_idx \in WordDraws(cls, SEEDS, args.max_phrase_len),
                      map_idx \in MapDraws(cls, maps) :
                     LET ret == generate_sample(cls, maps, SEEDS, word_idx, map_idx)
                     IN  /\ output' = Append(output, [text |-> CsvField(ret.text),
                                                      label |-> ret.label])
                         /\ sample' = SampleRecord(cls, maps, SEEDS, word_idx, map_idx)
    /\ loop_i' = loop_i + 1
    /\ UNCHANGED <<pc, data, args, maps, conv, SEEDS, classes>>
    /\ UNCHANGED trainvars
    /\ UNCHANGED toolvars

\* the loop ends, the file is closed
Finish ==
    /\ pc = "loop"
    /\ loop_i >= args.count
    /\ pc' = "done"
    /\ UNCHANGED <<data, args, maps, conv, SEEDS, classes, loop_i, output, sample>>
    /\ UNCHANGED trainvars
    /\ UNCHANGED toolvars

\* most rows of a run
MaxCount == 1

\* values of --max-phrase-len
PhraseLens == {1, 2}

\* values of --corpus_dir: not given, or the directory "corpus"
CorpusDirs == {None, <<"corpus">>}

\* layout sources of the dataset runs: the usual columns; shift entries with two
\* Hebrew layouts missing; en_us with "g" on both keys
MainSources ==
    {Source(StdColumn(en_us), StdColumn(ru_pc), StdColumn(ru_phonetic_yasherty),
            StdColumn(he_standard), StdColumn(he_qwerty), StdColumn(he_pc)),
     Source(ShiftColumn(en_us), ShiftColumn(ru_pc), StdColumn(ru_phonetic_yasherty),
            AbsentColumn, StdColumn(he_qwerty), AbsentColumn),
     Source([k \in Keys |-> [n |-> <<"g">>]], StdColumn(ru_pc), AbsentColumn,
            StdColumn(he_standard), StdColumn(he_qwerty), StdColumn(he_pc))}

Init ==
    /\ pc = "start"
    /\ data \in MainSources
    /\ args \in [focus_layout : FocusChoices, balance : BalanceValues,
                  count : 0..MaxCount, max_phrase_len : PhraseLens,
                  corpus_dir : CorpusDirs]
    /\ maps = EmptyDict
    /\ conv = NoConv
    /\ SEEDS = DefaultSeeds
    /\ classes = EmptyDict
    /\ loop_i = 0
    /\ output = << >>
    /\ sample = EmptyDict
    /\ TrainIdle
    /\ ToolsIdle

Next == LoadLayoutMap \/ LoadCorpus \/ SelectClasses \/ GenerateRow \/ Finish

Spec == Init /\ [][Next]_vars

---------------------------------------------------------------------------
(* generate_sample called on its own, with any table of candidate lists *)

\* the usual layout source
StdSource ==
    Source(StdColumn(en_us), StdColumn(ru_pc), StdColumn(ru_phonetic_yasherty),
           StdColumn(he_standard), StdColumn(he_qwerty), StdColumn(he_pc))

\* a table with the lists of the pair keys in kept, empty lists for those in emptied,
\* and no entry for the other pair keys
CutTable(full, kept, emptied) ==
    [k \in kept \cup emptied |-> IF k \in kept THEN full[k] ELSE << >>]

\* tables of candidate lists: each pair key with its list, with an empty list, or missing
SampleTables ==
    LET full == load_layout_map(StdSource, NoFocus)
    IN  {CutTable(full, kept, emptied) :
            kept \in SUBSET DOMAIN full, emptied \in SUBSET DOMAIN full}

\* generate_sample(class_name, maps, args.max_phrase_len)
CallGenerateSample ==
    /\ pc = "table"
    /\ \E c \in 1..Len(CLASSES) :
         \E word_idx \in WordDraws(CLASSES[c], SEEDS, args.max_phrase_len),
            map_idx \in MapDraws(CLASSES[c], maps) :
           sample' = SampleRecord(CLASSES[c], maps, SEEDS, word_idx, map_idx)
    /\ pc' = "sampled"
    /\ UNCHANGED <<data, args, maps, conv, SEEDS, classes, loop_i, output>>
    /\ UNCHANGED trainvars
    /\ UNCHANGED toolvars

InitSample ==
    /\ pc = "table"
    /\ data = StdSource
    /\ args \in {[NoArgs EXCEPT !.max_phrase_len = n] : n \in PhraseLens}
    /\ maps \in SampleTables
    /\ conv = NoConv
    /\ SEEDS = DefaultSeeds
    /\ classes = EmptyDict
    /\ loop_i = 0
    /\ output = << >>
    /\ sample = EmptyDict
    /\ TrainIdle
    /\ ToolsIdle

NextSample == CallGenerateSample

SpecSample == InitSample /\ [][NextSample]_vars

---------------------------------------------------------------------------
(* Trigram trainer, Tools/NgramTrainer/train_ngrams.py: normalize_text *)

\* the dataset generator's variables while the trainer runs
GeneratorIdle ==
    /\ data = EmptyDict
    /\ args = NoArgs
    /\ maps = EmptyDict
    /\ conv = NoConv
    /\ GenIdle

\* str.lower() of one character.  "A", "B" are Latin capitals, "RU_P" and "RU_YO" the
\* capitals of "ru_p" and "ru_yo" (U+0451); "I_dot" is U+0130, whose lowercase is the two
\* characters i and U+0307; every other character of the model is its own lowercase
LowerChar(c) ==
    CASE c = "A" -> <<"a">>
      [] c = "B" -> <<"b">>
      [] c = "RU_P" -> <<"ru_p">>
      [] c = "RU_YO" -> <<"ru_yo">>
      [] c = "I_dot" -> <<"i", "dot_above">>
      [] OTHER -> <<c>>

\* text.lower()
RECURSIVE Lower(_)
Lower(text) == IF text = << >> THEN << >> ELSE LowerChar(Head(text)) \o Lower(Tail(text))

\* the languages normalize_text knows
SupportedLangs == {"ru", "en", "he"}

\* valid_chars of a language, cut to the characters of the model: U+0410..U+044F (capital
\* and small Cyrillic) and U+0451 for ru, a..z for en, the block U+0590..U+05FF for he
\* ("he_maqaf" is the punctuation mark U+05BE of that block)
valid_chars(lang) ==
    CASE lang = "ru" -> {"RU_P", "ru_p", "ru_r", "ru_g", "ru_h", "ru_yo"}
      [] lang = "en" -> {"a", "b", "g", "h", "i"}
      [] lang = "he" -> {"he_ayin", "he_yod", "he_gimel", "he_he", "he_maqaf"}

\* normalize_text that filters before it lowercases
normalize_text_filter_first(text, lang) ==
    LET Valid(c) == c \in valid_chars(lang)
    IN  Lower(SelectSeq(text, Valid))

\* normalize_text(text, lang) for a supported language
normalize_text(text, lang) ==
    LET normalized == Lower(text)
        Valid(c) == c \in valid_chars(lang)
    IN  SelectSeq(normalized, Valid)

\* characters of the texts normalized: letters of the three scripts in both cases, a
\* letter whose lowercase is two characters, a space, a digit, punctuation
NormChars ==
    {"a", "b", "A", "I_dot", "ru_p", "RU_P", "ru_yo", "RU_YO", "he_ayin", "he_maqaf",
     Space, "1", ","}

\* result = normalize_text(text, lang); an unsupported language raises ValueError
NormalizeText ==
    /\ pc = "text"
    /\ norm' = IF norm.lang \in SupportedLangs
               THEN [norm EXCEPT !.called = TRUE,
                                 !.result = normalize_text(norm.text, norm.lang)]
               ELSE [norm EXCEPT !.called = TRUE, !.raised = TRUE]
    /\ pc' = "normalized"
    /\ UNCHANGED <<data, args, maps, conv, genvars>>
    /\ UNCHANGED <<input_file, targs, trigram_counts, model, valid, saved, exit_status,
                   error>>
    /\ UNCHANGED toolvars

InitNorm ==
    /\ pc = "text"
    /\ GeneratorIdle
    /\ input_file = [exists |-> FALSE, utf8 |-> TRUE, lines |-> << >>]
    /\ targs = [lang |-> "en", smoothing_k |-> 1]
    /\ trigram_counts = EmptyDict
    /\ model = EmptyDict
    /\ valid = NotValidated
    /\ saved = EmptyDict
    /\ exit_status = -1
    /\ error = ""
    /\ norm \in {[NoNorm EXCEPT !.text = t, !.lang = l] :
                    t \in SeqsUpTo(NormChars, MaxNormLen), l \in SupportedLangs \cup {"fr"}}
    /\ ToolsIdle

NextNorm == NormalizeText

SpecNorm == InitNorm /\ [][NextNorm]_vars

---------------------------------------------------------------------------
(* Trigram trainer: extract_trigrams, train_model, validate_model, save_model, main *)

\* line.strip(): leading and trailing whitespace removed
RECURSIVE Strip(_)
Strip(line) ==
    IF line = << >> THEN << >>
    ELSE IF Head(line) = Space THEN Strip(Tail(line))
    ELSE IF line[Len(line)] = Space THEN Strip(SubSeq(line, 1, Len(line) - 1))
    ELSE line

\* extract_trigrams that steps from one window to the next window after it
extract_trigrams_nonoverlapping(text) ==
    [j \in 1..(Len(text) \div 3) |-> SubSeq(text, 3 * j - 2, 3 * j)]

\* extract_trigrams(text): the windows text[i:i+3], i in range(len(text) - 2)
extract_trigrams(text) ==
    [j \in 1..(Len(text) - 2) |-> SubSeq(text, j, j + 2)]

\* an update that stores a line's own count of a trigram in place of the running count
CounterUpdate_replacing(counts, trigrams) ==
    [t \in (DOMAIN counts) \cup {trigrams[j] : j \in 1..Len(trigrams)} |->
        IF \E j \in 1..Len(trigrams) : trigrams[j] = t
        THEN Cardinality({j \in 1..Len(trigrams) : trigrams[j] = t})
        ELSE counts[t]]

\* trigram_counts.update(trigrams): each element of the list adds one to its count
RECURSIVE CounterUpdate(_, _)
CounterUpdate(counts, trigrams) ==
    IF trigrams = << >> THEN counts
    ELSE CounterUpdate(DictPut(counts, Head(trigrams), DictGet(counts, Head(trigrams), 0) + 1),
                       Tail(trigrams))

\* the loop over the lines of the file, lines 62-74
RECURSIVE CountLines(_, _, _)
CountLines(lines, lang, counts) ==
    IF lines = << >> THEN counts
    ELSE LET line == Strip(Head(lines))
             normalized == normalize_text(line, lang)
         IN  IF line = << >> \/ Len(normalized) < 3
             THEN CountLines(Tail(lines), lang, counts)
             ELSE CountLines(Tail(lines), lang,
                             CounterUpdate(counts, extract_trigrams(normalized)))

\* sum(trigram_counts.values())
RECURSIVE SumValues(_)
SumValues(counts) ==
    IF DOMAIN counts = {} THEN 0
    ELSE LET t == CHOOSE t \in DOMAIN counts : TRUE
         IN  counts[t] + SumValues([u \in (DOMAIN counts) \ {t} |-> counts[u]])

\* math.log of the integers 1, 2, ..., in millionths
LnMicro ==
    <<       0,  693147, 1098612, 1386294, 1609438, 1791759, 1945910, 2079442,
       2197225, 2302585, 2397895, 2484907, 2564949, 2639057, 2708050, 2772589,
       2833213, 2890372, 2944439, 2995732, 3044522, 3091042, 3135494, 3178054,
       3218876, 3258097, 3295837, 3332205, 3367296, 3401197, 3433987, 3465736,
       3496508, 3526361, 3555348, 3583519, 3610918, 3637586, 3663562, 3688879,
       3713572, 3737670, 3761200, 3784190, 3806662, 3828641, 3850148, 3871201 >>

Abs(x) == IF x < 0 THEN -x ELSE x

\* round(math.log(num / den), 2) in hundredths, for a quotient above zero
RoundedLog(num, den) ==
    LET micro == LnMicro[Abs(num)] - LnMicro[Abs(den)]
    IN  IF micro >= 0 THEN (micro + 5000) \div 10000
        ELSE -((5000 - micro) \div 10000)

\* the model dict of lines 105-113 with total_count and unique_trigrams interchanged
ModelDict_swapped(counts, lang, smoothing_k) ==
    LET total_count == SumValues(counts)
        vocab_size == Cardinality(DOMAIN counts)
    IN  [lang |-> lang, n |-> 3, version |-> 1, smoothing_k |-> smoothing_k,
         total_count |-> vocab_size, unique_trigrams |-> total_count,
         trigrams |-> [t \in DOMAIN counts |->
                          RoundedLog(counts[t] + smoothing_k,
                                     total_count + smoothing_k * vocab_size)]]

\* lines 91-113: the log-probabilities and the model dict
ModelDict(counts, lang, smoothing_k) ==
    LET total_count == SumValues(counts)
        vocab_size == Cardinality(DOMAIN counts)
    IN  [lang |-> lang, n |-> 3, version |-> 1, smoothing_k |-> smoothing_k,
         total_count |-> total_count, unique_trigrams |-> vocab_size,
         trigrams |-> [t \in DOMAIN counts |->
                          RoundedLog(counts[t] + smoothing_k,
                                     total_count + smoothing_k * vocab_size)]]

\* train_model that opens the file with errors='ignore'
train_model_ignoring_decode_errors(file, lang, smoothing_k) ==
    IF ~file.exists
    THEN [error |-> "FileNotFoundError", counts |-> EmptyDict, model |-> EmptyDict]
    ELSE LET counts == CountLines(file.lines, lang, EmptyDict)
             den == SumValues(counts) + smoothing_k * Cardinality(DOMAIN counts)
         IN  IF counts = EmptyDict
             THEN [error |-> "NoTrigrams", counts |-> counts, model |-> EmptyDict]
             ELSE IF den = 0
             THEN [error |-> "ZeroDivisionError", counts |-> counts, model |-> EmptyDict]
             ELSE IF \E t \in DOMAIN counts : (counts[t] + smoothing_k) * den <= 0
             THEN [error |-> "ValueError", counts |-> counts, model |-> EmptyDict]
             ELSE [error |-> "", counts |-> counts,
                   model |-> ModelDict(counts, lang, smoothing_k)]

\* train_model(input_file, lang, smoothing_k): what ends the call (a return, or the
\* exception or sys.exit(1) named in error), the Counter at that point, the model returned.
\* A division by 0.0 raises ZeroDivisionError and math.log of a quotient that is not
\* above zero raises ValueError; neither is caught.  The lines of a file that does not
\* decode are those read before the undecodable bytes.
\* For a language that is none of ru, en, he the ValueError of normalize_text is raised
\* at the first line that is not blank, and by no other line of the function.
train_model(file, lang, smoothing_k) ==
    IF ~file.exists
    THEN [error |-> "FileNotFoundError", counts |-> EmptyDict, model |-> EmptyDict]
    ELSE IF lang \notin SupportedLangs
    THEN [error |-> IF \E j \in 1..Len(file.lines) : Strip(file.lines[j]) # << >>
                    THEN "UnsupportedLanguage"
                    ELSE IF ~file.utf8 THEN "UnicodeDecodeError" ELSE "NoTrigrams",
          counts |-> EmptyDict, model |-> EmptyDict]
    ELSE LET counts == CountLines(file.lines, lang, EmptyDict)
             total_count == SumValues(counts)
             vocab_size == Cardinality(DOMAIN counts)
             den == total_count + smoothing_k * vocab_size
         IN  IF ~file.utf8
             THEN [error |-> "UnicodeDecodeError", counts |-> counts, model |-> EmptyDict]
             ELSE IF counts = EmptyDict
             THEN [error |-> "NoTrigrams", counts |-> counts, model |-> EmptyDict]
             ELSE IF den = 0
             THEN [error |-> "ZeroDivisionError", counts |-> counts, model |-> EmptyDict]
             ELSE IF \E t \in DOMAIN counts : (counts[t] + smoothing_k) * den <= 0
             THEN [error |-> "ValueError", counts |-> counts, model |-> EmptyDict]
             ELSE [error |-> "", counts |-> counts,
                   model |-> ModelDict(counts, lang, smoothing_k)]

\* validate_model that rejects a model with a positive log-probability
validate_model_strict(m) ==
    IF \E field \in {"lang", "n", "version", "trigrams"} : field \notin DOMAIN m
    THEN [called |-> TRUE, ok |-> FALSE, warnings |-> {}]
    ELSE IF m["trigrams"] = EmptyDict
    THEN [called |-> TRUE, ok |-> FALSE, warnings |-> {}]
    ELSE [called |-> TRUE,
          ok |-> ~(\E t \in DOMAIN m["trigrams"] : m["trigrams"][t] > 0),
          warnings |-> {}]

\* validate_model(model): the value returned and the warnings printed
validate_model(m) ==
    IF \E field \in {"lang", "n", "version", "trigrams"} : field \notin DOMAIN m
    THEN [called |-> TRUE, ok |-> FALSE, warnings |-> {}]
    ELSE LET trigrams == m["trigrams"]
             n_warning == IF m["n"] # 3 THEN {"n"} ELSE {}
         IN  IF trigrams = EmptyDict
             THEN [called |-> TRUE, ok |-> FALSE, warnings |-> n_warning]
             ELSE [called |-> TRUE, ok |-> TRUE,
                   warnings |-> n_warning \cup
                       (IF \E t \in DOMAIN trigrams : trigrams[t] > 0
                        THEN {"positive"} ELSE {})]

\* model = train_model(args.input, args.lang, args.smoothing_k), line 196
TrainModel ==
    /\ pc = "start"
    /\ LET ret == train_model(input_file, targs.lang, targs.smoothing_k)
       IN  /\ trigram_counts' = ret.counts
           /\ model' = ret.model
           /\ error' = ret.error
           /\ exit_status' = IF ret.error = "" THEN exit_status ELSE 1
           /\ pc' = IF ret.error = "" THEN "trained" ELSE "exited"
    /\ UNCHANGED <<data, args, maps, conv, genvars>>
    /\ UNCHANGED <<input_file, targs, valid, saved, norm>>
    /\ UNCHANGED toolvars

\* if not validate_model(model): sys.exit(1), lines 199-200
ValidateModel ==
    /\ pc = "trained"
    /\ valid' = validate_model(model)
    /\ IF valid'.ok
       THEN pc' = "validated" /\ UNCHANGED <<exit_status, error>>
       ELSE pc' = "exited" /\ exit_status' = 1 /\ error' = "InvalidModel"
    /\ UNCHANGED <<data, args, maps, conv, genvars>>
    /\ UNCHANGED <<input_file, targs, trigram_counts, model, saved, norm>>
    /\ UNCHANGED toolvars

\* save_model(model, args.output), line 203, and the end of main; the write either
\* succeeds or raises IOError, which save_model turns into sys.exit(1)
SaveModel ==
    /\ pc = "validated"
    /\ \E written \in BOOLEAN :
         IF written
         THEN saved' = model /\ exit_status' = 0 /\ UNCHANGED error
         ELSE UNCHANGED saved /\ exit_status' = 1 /\ error' = "IOError"
    /\ pc' = "exited"
    /\ UNCHANGED <<data, args, maps, conv, genvars>>
    /\ UNCHANGED <<input_file, targs, trigram_counts, model, valid, norm>>
    /\ UNCHANGED toolvars

\* most lines of a corpus file
MaxLines == 2

\* lines of the corpus files: two words that normalize to one string, a capital, a
\* digit, a line too short, an empty and a blank line, a trigram twice in one line,
\* Cyrillic letters followed by a Latin one
TrainLines ==
    {<<"a", "b", "a", "b">>,
     <<"a", "b", Space, "A", "b">>,
     <<"a", "b">>,
     << >>,
     <<Space, Space>>,
     <<Space, "b", "a", "b", "1", "a">>,
     <<"a", "a", "a">>,
     <<"a", "b", "a", "b", "a">>,
     <<"RU_P", "ru_r", "ru_yo", "a">>}

\* the file at args.input: missing, not UTF-8 after its first line, or lines of text
TrainFiles ==
    {[exists |-> FALSE, utf8 |-> TRUE, lines |-> << >>],
     [exists |-> TRUE, utf8 |-> FALSE, lines |-> << <<"a", "b", "a", "b">> >>]}
    \cup {[exists |-> TRUE, utf8 |-> TRUE, lines |-> c] : c \in SeqsUpTo(TrainLines, MaxLines)}

\* values of --smoothing-k (type=float, default 1.0, any float is taken)
SmoothingValues == {-2, -1, 0, 1, 2}

InitTrain ==
    /\ pc = "start"
    /\ GeneratorIdle
    /\ input_file \in TrainFiles
    /\ targs \in [lang : {"en", "ru"}, smoothing_k : SmoothingValues]
    /\ trigram_counts = EmptyDict
    /\ model = EmptyDict
    /\ valid = NotValidated
    /\ saved = EmptyDict
    /\ exit_status = -1
    /\ error = ""
    /\ norm = NoNorm
    /\ ToolsIdle

NextTrain == TrainModel \/ ValidateModel \/ SaveModel

SpecTrain == InitTrain /\ [][NextTrain]_vars

---------------------------------------------------------------------------
(* validate_model and the end of main, for any model dict *)

\* the trigrams of the model dicts
Aba == <<"a", "b", "a">>
Bab == <<"b", "a", "b">>

\* trigram maps: empty, or log-probabilities in hundredths below, at and above zero
TrigramMaps ==
    {EmptyDict} \cup UNION {[S -> {-69, 0, 5}] : S \in (SUBSET {Aba, Bab}) \ {{}}}

\* a dict without one of its keys
Without(d, key) == [k \in (DOMAIN d) \ {key} |-> d[k]]

\* model dicts: n right or wrong, any trigram map, all fields or one field missing
ValidateModels ==
    LET Full(n, trigrams) ==
            [lang |-> "en", n |-> n, version |-> 1, smoothing_k |-> 1,
             total_count |-> 2, unique_trigrams |-> 2, trigrams |-> trigrams]
        fulls == {Full(n, trigrams) : n \in {2, 3}, trigrams \in TrigramMaps}
    IN  fulls \cup {Without(m, key) : m \in fulls,
                       key \in {"lang", "n", "version", "trigrams", "total_count"}}

InitValidate ==
    /\ pc = "trained"
    /\ GeneratorIdle
    /\ input_file = [exists |-> FALSE, utf8 |-> TRUE, lines |-> << >>]
    /\ targs = [lang |-> "en", smoothing_k |-> 1]
    /\ trigram_counts = EmptyDict
    /\ model \in ValidateModels
    /\ valid = NotValidated
    /\ saved = EmptyDict
    /\ exit_status = -1
    /\ error = ""
    /\ norm = NoNorm
    /\ ToolsIdle

NextValidate == ValidateModel \/ SaveModel

SpecValidate == InitValidate /\ [][NextValidate]_vars

---------------------------------------------------------------------------
(* Unigram trainer, Tools/NgramTrainer/train_unigrams.py.  A Counter is a list of
   <<word, count>> in insertion order, the order most_common keeps among equal counts. *)

\* every tool's variables but uni
notuni == <<data, args, maps, conv, genvars, trainvars, dl, rt, fit, bpe>>

\* valid_chars_for(lang), for a supported language: the sets of the trigram trainer
valid_chars_for(lang) == valid_chars(lang)

\* iter_words: the loop over line.lower() with its buffer
RECURSIVE IterWordsLoop(_, _, _)
IterWordsLoop(chars, valid_set, buf) ==
    IF chars = << >> THEN (IF buf # << >> THEN <<buf>> ELSE << >>)
    ELSE IF Head(chars) \in valid_set
    THEN IterWordsLoop(Tail(chars), valid_set, Append(buf, Head(chars)))
    ELSE (IF buf # << >> THEN <<buf>> ELSE << >>)
         \o IterWordsLoop(Tail(chars), valid_set, << >>)

\* list(iter_words(line, valid))
iter_words(line, valid_set) == IterWordsLoop(Lower(line), valid_set, << >>)

\* counts[w] += 1
CounterAdd(counts, w) ==
    IF \E j \in 1..Len(counts) : counts[j][1] = w
    THEN [j \in 1..Len(counts) |->
             IF counts[j][1] = w THEN <<w, counts[j][2] + 1>> ELSE counts[j]]
    ELSE Append(counts, <<w, 1>>)

\* the first n entries in insertion order, whatever their counts
most_common_unsorted(counts, n) ==
    IF n <= 0 THEN << >>
    ELSE IF n >= Len(counts) THEN counts
    ELSE SubSeq(counts, 1, n)

\* counts.most_common(n): by count, largest first, equal counts in insertion order;
\* nothing for n <= 0, everything for n >= len(counts)
most_common(counts, n) ==
    LET Before(h, j) == counts[h][2] > counts[j][2] \/ (counts[h][2] = counts[j][2] /\ h < j)
        Place(j) == 1 + Cardinality({h \in 1..Len(counts) : Before(h, j)})
        sorted == [p \in 1..Len(counts) |->
                      counts[CHOOSE j \in 1..Len(counts) : Place(j) = p]]
    IN  IF n <= 0 THEN << >>
        ELSE IF n >= Len(counts) THEN sorted
        ELSE SubSeq(sorted, 1, n)

\* the loop over the words of one line, lines 63-67
RECURSIVE CountWords(_, _, _)
CountWords(counts, words, min_len) ==
    IF words = << >> THEN counts
    ELSE CountWords(IF Len(Head(words)) < min_len THEN counts
                    ELSE CounterAdd(counts, Head(words)),
                    Tail(words), min_len)

\* the body of the loop over the lines, 62-71: the words are counted, then the table
\* is cut when it has more than prune_max_vocab words
ScanLine(counts, line, lang, min_len, prune_max_vocab, prune_keep) ==
    LET counted == CountWords(counts, iter_words(line, valid_chars_for(lang)), min_len)
    IN  IF Len(counted) > prune_max_vocab THEN most_common(counted, prune_keep)
        ELSE counted

\* the loop over the lines
RECURSIVE ScanLines(_, _, _, _, _, _)
ScanLines(counts, lines, lang, min_len, prune_max_vocab, prune_keep) ==
    IF lines = << >> THEN counts
    ELSE ScanLines(ScanLine(counts, Head(lines), lang, min_len, prune_max_vocab, prune_keep),
                   Tail(lines), lang, min_len, prune_max_vocab, prune_keep)

\* Counter(dict(pairs)) as a table word -> count
AsTable(pairs) ==
    [w \in {pairs[j][1] : j \in 1..Len(pairs)} |->
        pairs[CHOOSE j \in 1..Len(pairs) : pairs[j][1] = w][2]]

\* lines 79-88: no counts is sys.exit(1), else the top_n most common
UniResult(counts, top_n) ==
    IF counts = << >> THEN [error |-> "NoTokens", result |-> EmptyDict]
    ELSE [error |-> "", result |-> AsTable(most_common(counts, top_n))]

\* train_unigrams(input_file, lang, top_n, min_len, prune_max_vocab, prune_keep): how
\* the call ends and the Counter returned
train_unigrams(file, lang, top_n, min_len, prune_max_vocab, prune_keep) ==
    IF lang \notin SupportedLangs
    THEN [error |-> "UnsupportedLanguage", result |-> EmptyDict]
    ELSE IF ~file.exists THEN [error |-> "FileNotFoundError", result |-> EmptyDict]
    ELSE IF ~file.utf8 THEN [error |-> "UnicodeDecodeError", result |-> EmptyDict]
    ELSE UniResult(ScanLines(<< >>, file.lines, lang, min_len, prune_max_vocab, prune_keep),
                   top_n)

\* the run of train_unigrams: uni.step is "main" or "call" before it starts (from the
\* command line, or called with its parameters), then "scan", "finish", "save", "end"

\* main, lines 110-120: the parameters of the call are taken from the command line
UniMain ==
    /\ uni.step = "main"
    /\ uni' = [uni EXCEPT !.step = "call",
                          !.prune_keep = IF uni.prune_keep > uni.top_n THEN uni.prune_keep
                                         ELSE uni.top_n]
    /\ UNCHANGED <<pc, notuni>>

\* lines 53-60: valid_chars_for raises for an unsupported language, open for a
\* missing file
UniCall ==
    /\ uni.step = "call"
    /\ uni' = IF uni.lang \notin SupportedLangs
              THEN [uni EXCEPT !.step = "end", !.error = "UnsupportedLanguage",
                               !.exit_status = 1]
              ELSE IF ~uni.file.exists
              THEN [uni EXCEPT !.step = "end", !.error = "FileNotFoundError",
                               !.exit_status = 1]
              ELSE [uni EXCEPT !.step = "scan"]
    /\ UNCHANGED <<pc, notuni>>

\* one pass of the loop over the lines; reading past the decodable part of the file
\* raises UnicodeDecodeError
UniScanLine ==
    /\ uni.step = "scan"
    /\ uni' = IF uni.lines_read < Len(uni.file.lines)
              THEN [uni EXCEPT !.lines_read = @ + 1,
                               !.counts = ScanLine(@, uni.file.lines[uni.lines_read + 1],
                                                   uni.lang, uni.min_len,
                                                   uni.prune_max_vocab, uni.prune_keep)]
              ELSE IF ~uni.file.utf8
              THEN [uni EXCEPT !.step = "end", !.error = "UnicodeDecodeError",
                               !.exit_status = 1]
              ELSE [uni EXCEPT !.step = "finish"]
    /\ UNCHANGED <<pc, notuni>>

\* lines 79-88, and for a run from the command line save_tsv and the end of main
UniFinish ==
    /\ uni.step = "finish"
    /\ LET ret == UniResult(uni.counts, uni.top_n)
       IN  uni' = IF ret.error # ""
                  THEN [uni EXCEPT !.step = "end", !.error = ret.error, !.exit_status = 1]
                  ELSE [uni EXCEPT !.step = "end", !.result = ret.result,
                                   !.exit_status = IF uni.from_main THEN 0 ELSE @]
    /\ UNCHANGED <<pc, notuni>>

\* lines of the corpus files: two words, one of them again, a capital and punctuation
\* with a one-letter word, an empty line
UniLines ==
    {<<"a", "a", Space, "b", "b">>,
     <<"b", "b">>,
     <<"a", "b">>,
     <<"A", "a", ",", "a", "b", Space, "b">>,
     << >>}

\* the file at input_file
UniFiles ==
    {[exists |-> FALSE, utf8 |-> TRUE, lines |-> << >>],
     [exists |-> TRUE, utf8 |-> FALSE, lines |-> << <<"a", "a">> >>]}
    \cup {[exists |-> TRUE, utf8 |-> TRUE, lines |-> c] : c \in SeqsUpTo(UniLines, MaxLines)}

\* values of top_n, min_len, prune_max_vocab, prune_keep
TopValues == {0, 1, 3}
MinLenValues == {1, 2}
PruneMaxValues == {1, 4}
PruneKeepValues == {1, 3}

\* a run not started
UniStart(from_main, file, lang, top_n, min_len, prune_max_vocab, prune_keep) ==
    [step |-> IF from_main THEN "main" ELSE "call", from_main |-> from_main,
     file |-> file, lang |-> lang, top_n |-> top_n, min_len |-> min_len,
     prune_max_vocab |-> prune_max_vocab, prune_keep |-> prune_keep,
     lines_read |-> 0, counts |-> << >>, result |-> EmptyDict,
     error |-> "", exit_status |-> -1]

InitUni ==
    /\ pc = "idle"
    /\ GeneratorIdle
    /\ TrainIdle
    /\ dl = EmptyDict /\ rt = EmptyDict /\ fit = EmptyDict /\ bpe = EmptyDict
    /\ uni \in {UniStart(from_main, file, "en", top_n, min_len, prune_max_vocab, prune_keep) :
                   from_main \in BOOLEAN, file \in UniFiles, top_n \in TopValues,
                   min_len \in MinLenValues, prune_max_vocab \in PruneMaxValues,
                   prune_keep \in PruneKeepValues}

NextUni == UniMain \/ UniCall \/ UniScanLine \/ UniFinish

SpecUni == InitUni /\ [][NextUni]_vars

\* language tags the two functions are called with, two of them unsupported
LangTags == {"en", "fr", "de"}

\* train_model and train_unigrams called on the same corpus with the same tag
InitLang ==
    /\ pc = "start"
    /\ GeneratorIdle
    /\ input_file \in TrainFiles
    /\ targs \in [lang : LangTags, smoothing_k : {1}]
    /\ trigram_counts = EmptyDict
    /\ model = EmptyDict
    /\ valid = NotValidated
    /\ saved = EmptyDict
    /\ exit_status = -1
    /\ error = ""
    /\ norm = NoNorm
    /\ dl = EmptyDict /\ rt = EmptyDict /\ fit = EmptyDict /\ bpe = EmptyDict
    /\ uni = UniStart(FALSE, input_file, targs.lang, 3, 1, 4, 3)

NextLang == TrainModel \/ UniCall \/ UniScanLine \/ UniFinish

SpecLang == InitLang /\ [][NextLang]_vars

---------------------------------------------------------------------------
(* Corpus download, Tools/CoreMLTrainer/download_corpus.py: main submits one
   download_lang per language to a pool of as many threads and collects the futures.
   dl.ds is what the dataset service holds for each language, dl.w the position and
   locals of each worker, dl.files the output directory, dl.main the main thread. *)

\* every tool's variables but dl
notdl == <<data, args, maps, conv, genvars, trainvars, uni, rt, fit, bpe>>

\* languages = ["ru", "he", "en"], line 77
DlLanguages == {"ru", "he", "en"}

\* one output file for every language
OutputFile_shared(lang_code) == <<"wiki.jsonl">>

\* os.path.join(output_dir, f"{lang_code}_wiki.jsonl"), below the output directory
OutputFile(lang_code) == <<lang_code, "_wiki.jsonl">>

\* batch_size = 2000 and LIMIT = 300_000, scaled down: the limit stays a multiple of
\* the batch size
batch_size == 2
LIMIT == 4

\* example number k of the dataset of a language
Example(lang_code, k) == [id |-> k, text |-> <<lang_code, k>>]

\* json.dumps({"text": example['text']}, ensure_ascii=False)
JsonLine(example) == <<"{", "text", ":", example.text, "}">>

\* what the service holds for a language: size examples, and where it fails: in
\* load_dataset, in open of the output file, or in the stream after `after` examples
DlDatasets ==
    {[size |-> 3, fails |-> "never", after |-> 0],
     [size |-> 5, fails |-> "never", after |-> 0],
     [size |-> 0, fails |-> "load", after |-> 0],
     [size |-> 3, fails |-> "open", after |-> 0],
     [size |-> 3, fails |-> "stream", after |-> 2]}

\* a worker submitted and not started
DlQueued == [step |-> "queued", count |-> 0, buffer |-> << >>, failed |-> FALSE]

\* f.write('\n'.join(buffer) + '\n')
WriteBuffer(files, name, buffer) ==
    [files EXCEPT ![name] = [@ EXCEPT !.lines = @ \o buffer]]

\* lines 83-84: the pool is made and the three calls are submitted
DlSubmit ==
    /\ dl.main.step = "start"
    /\ dl' = [dl EXCEPT !.main.step = "waiting"]
    /\ UNCHANGED <<pc, notdl>>

\* line 34: load_dataset; an exception is caught at line 65 and the call returns
DlLoad(l) ==
    /\ dl.main.step # "start"
    /\ dl.w[l].step = "queued"
    /\ dl' = IF dl.ds[l].fails = "load"
             THEN [dl EXCEPT !.w[l].step = "done", !.w[l].failed = TRUE]
             ELSE [dl EXCEPT !.w[l].step = "loaded"]
    /\ UNCHANGED <<pc, notdl>>

\* line 41: open(output_file, 'w') makes the file or empties it
DlOpen(l) ==
    /\ dl.w[l].step = "loaded"
    /\ dl' = IF dl.ds[l].fails = "open"
             THEN [dl EXCEPT !.w[l].step = "done", !.w[l].failed = TRUE]
             ELSE [dl EXCEPT !.w[l].step = "stream",
                             !.files[OutputFile(l)] = [exists |-> TRUE, lines |-> << >>]]
    /\ UNCHANGED <<pc, notdl>>

\* lines 42-57: the stream gives the next example, ends, or raises; a full buffer is
\* written; count >= LIMIT leaves the loop
DlExample(l) ==
    /\ dl.w[l].step = "stream"
    /\ LET w == dl.w[l]
           buffer == Append(w.buffer, JsonLine(Example(l, w.count + 1)))
           count == w.count + 1
           full == Len(buffer) >= batch_size
       IN  dl' = IF dl.ds[l].fails = "stream" /\ w.count = dl.ds[l].after
                 THEN [dl EXCEPT !.w[l].step = "done", !.w[l].failed = TRUE]
                 ELSE IF w.count = dl.ds[l].size
                 THEN [dl EXCEPT !.w[l].step = "rest"]
                 ELSE [dl EXCEPT !.w[l].count = count,
                                 !.w[l].buffer = IF full THEN << >> ELSE buffer,
                                 !.w[l].step = IF count >= LIMIT THEN "rest" ELSE "stream",
                                 !.files = IF full THEN WriteBuffer(@, OutputFile(l), buffer)
                                           ELSE @]
    /\ UNCHANGED <<pc, notdl>>

\* lines 59-63: what is left in the buffer is written, the file closed
DlFinish(l) ==
    /\ dl.w[l].step = "rest"
    /\ dl' = [dl EXCEPT !.w[l].step = "done",
                        !.files = IF dl.w[l].buffer # << >>
                                  THEN WriteBuffer(@, OutputFile(l), dl.w[l].buffer)
                                  ELSE @]
    /\ UNCHANGED <<pc, notdl>>

\* download_lang in the thread of language l
DlWorker(l) == DlLoad(l) \/ DlOpen(l) \/ DlExample(l) \/ DlFinish(l)

\* lines 86-90: as_completed gives a future that is done, future.result() returns
DlCollect ==
    /\ dl.main.step = "waiting"
    /\ \E l \in DlLanguages \ dl.main.collected :
          /\ dl.w[l].step = "done"
          /\ dl' = [dl EXCEPT !.main.collected = @ \cup {l}]
    /\ UNCHANGED <<pc, notdl>>

\* the end of the with block and of main
DlReturn ==
    /\ dl.main.step = "waiting"
    /\ dl.main.collected = DlLanguages
    /\ dl' = [dl EXCEPT !.main.step = "returned"]
    /\ UNCHANGED <<pc, notdl>>

\* the main thread
DlMain == DlSubmit \/ DlCollect \/ DlReturn

InitDl ==
    /\ pc = "idle"
    /\ GeneratorIdle
    /\ TrainIdle
    /\ uni = EmptyDict /\ rt = EmptyDict /\ fit = EmptyDict /\ bpe = EmptyDict
    /\ \E ds \in [DlLanguages -> DlDatasets] :
          dl = [ds |-> ds,
                w |-> [l \in DlLanguages |-> DlQueued],
                files |-> [f \in {OutputFile(l) : l \in DlLanguages} |->
                              [exists |-> FALSE, lines |-> << >>]],
                main |-> [step |-> "start", collected |-> {}]]

NextDl == DlMain \/ \E l \in DlLanguages : DlWorker(l)

SpecDl == InitDl /\ [][NextDl]_vars

\* the threads of the pool and the main thread are scheduled by the system: none that
\* can take a step waits for ever
FairSpecDl == SpecDl /\ WF_vars(DlMain) /\ \A l \in DlLanguages : WF_vars(DlWorker(l))

---------------------------------------------------------------------------
(* Test runner, tests/run_tests.py: main and the enabled system keyboard layouts.
   rt.system is the set of layouts the system has enabled, known to the program only
   through the switch_layout tool, which is taken to do what it is asked. *)

\* every tool's variables but rt
notrt == <<data, args, maps, conv, genvars, trainvars, uni, dl, fit, bpe>>

\* LAYOUT_SHORT_NAMES.get(layout_id, layout_id)
LAYOUT_SHORT_NAMES(layout_id) ==
    CASE layout_id = "us" -> "US"
      [] layout_id = "russianwin" -> "RussianWin"
      [] layout_id = "russian" -> "Russian"
      [] layout_id = "russian_phonetic" -> "Russian-Phonetic"
      [] layout_id = "hebrew" -> "Hebrew"
      [] layout_id = "hebrew_qwerty" -> "Hebrew-QWERTY"
      [] layout_id = "hebrew_pc" -> "Hebrew-PC"
      [] OTHER -> layout_id

\* LAYOUT_COMBOS without the names
LAYOUT_COMBOS ==
    <<[en |-> "us", ru |-> "russian", he |-> "hebrew"],
      [en |-> "us", ru |-> "russianwin", he |-> "hebrew"],
      [en |-> "us", ru |-> "russianwin", he |-> "hebrew_qwerty"],
      [en |-> "us", ru |-> "russian_phonetic", he |-> "hebrew"]>>

\* set_system_layouts(en, ru, he): the enabled layouts after the call
set_system_layouts(current, layouts) ==
    LET target == {LAYOUT_SHORT_NAMES(layouts.en), LAYOUT_SHORT_NAMES(layouts.ru),
                   LAYOUT_SHORT_NAMES(layouts.he)}
        disabled == {lay \in current : lay \notin target}
        enabled == {lay \in target : lay \notin current}
    IN  (current \ disabled) \cup enabled

\* lines 1116-1124: the layouts after the restoring loops of the finally block
RestoreLayouts(current_enabled, original_layouts) ==
    LET disabled == {lay \in current_enabled : lay \notin original_layouts}
        enabled == {lay \in original_layouts : lay \notin current_enabled}
    IN  (current_enabled \ disabled) \cup enabled

\* lines 866-885: the listener, the build, original_layouts saved; a failed build
\* returns 1
RtSave ==
    /\ rt.step = "start"
    /\ \/ rt' = [rt EXCEPT !.step = "exit", !.ended = "build failed"]
       \/ rt' = [rt EXCEPT !.step = "saved", !.original_layouts = rt.system]
    /\ UNCHANGED <<pc, notrt>>

\* lines 888-898: the combo is chosen, the system layouts are set to it
RtSetLayouts ==
    /\ rt.step = "saved"
    /\ LET base_layouts == LAYOUT_COMBOS[(rt.combo % Len(LAYOUT_COMBOS)) + 1]
       IN  rt' = [rt EXCEPT !.step = "layouts set",
                            !.base_layouts = base_layouts,
                            !.current_layouts = base_layouts,
                            !.changed = TRUE,
                            !.system = set_system_layouts(rt.system, base_layouts)]
    /\ UNCHANGED <<pc, notrt>>

\* lines 900-906: start_omfk and open_test_host, outside any try block.
\* start_test_host raises RuntimeError when the binary is missing and FocusLostError
\* when the host cannot be brought to the front; its warm-up calls check_abort, which
\* raises KeyboardInterrupt after F10, as Ctrl-C does anywhere
RtStartApps ==
    /\ rt.step = "layouts set"
    /\ \/ rt' = [rt EXCEPT !.step = "testing"]
       \/ \E exc \in {"RuntimeError", "FocusLostError", "KeyboardInterrupt"} :
             rt' = [rt EXCEPT !.step = "exit", !.ended = exc]
    /\ UNCHANGED <<pc, notrt>>

\* one test case inside the try block, lines 940-960: ensure_layouts_for_case sets the
\* system layouts when the case asks for other layouts, then the case runs, passes or
\* fails, or raises FocusLostError or KeyboardInterrupt
RtCase ==
    /\ rt.step = "testing"
    /\ rt.cases > 0
    /\ \E layouts \in {rt.base_layouts} \cup {LAYOUT_COMBOS[c] : c \in 1..Len(LAYOUT_COMBOS)},
          outcome \in {"passed", "failed", "FocusLostError", "KeyboardInterrupt"} :
          LET switched == layouts # rt.current_layouts
              system == IF switched THEN set_system_layouts(rt.system, layouts)
                        ELSE rt.system
              current_layouts == IF switched THEN layouts ELSE rt.current_layouts
          IN  rt' = [rt EXCEPT !.system = system,
                               !.current_layouts = current_layouts,
                               !.cases = @ - 1,
                               !.total_failed = IF outcome = "failed" THEN @ + 1 ELSE @,
                               !.step = IF outcome \in {"passed", "failed"} THEN "testing"
                                        ELSE "finally",
                               !.raised = IF outcome \in {"passed", "failed"} THEN @
                                          ELSE outcome]
    /\ UNCHANGED <<pc, notrt>>

\* the try block ends with no case left
RtCasesDone ==
    /\ rt.step = "testing"
    /\ rt.cases = 0
    /\ rt' = [rt EXCEPT !.step = "finally"]
    /\ UNCHANGED <<pc, notrt>>

\* lines 1107-1134: KeyboardInterrupt is caught, the finally block stops the
\* applications and restores the layouts, FocusLostError goes on to the caller,
\* otherwise main returns 0 or 1
RtFinally ==
    /\ rt.step = "finally"
    /\ rt' = [rt EXCEPT !.step = "exit",
                        !.system = RestoreLayouts(rt.system, rt.original_layouts),
                        !.ended = IF rt.raised = "FocusLostError" THEN "FocusLostError"
                                  ELSE IF rt.raised = "KeyboardInterrupt" THEN "aborted"
                                  ELSE "returned"]
    /\ UNCHANGED <<pc, notrt>>

\* layouts enabled when the runner starts; ABC is a layout the tables do not know
RtSystems ==
    {{"US", "Russian", "Hebrew"}, {"US", "Russian"}, {"ABC", "Hebrew-PC"}, {"US"}}

\* values of --combo and numbers of test cases
RtCombos == {0, 1, 2, 3, 5}
RtCaseCounts == {0, 1, 2}

InitRt ==
    /\ pc = "idle"
    /\ GeneratorIdle
    /\ TrainIdle
    /\ uni = EmptyDict /\ dl = EmptyDict /\ fit = EmptyDict /\ bpe = EmptyDict
    /\ \E system \in RtSystems, combo \in RtCombos, cases \in RtCaseCounts :
          rt = [step |-> "start", system |-> system, original_layouts |-> {},
                combo |-> combo, base_layouts |-> LAYOUT_COMBOS[1],
                current_layouts |-> LAYOUT_COMBOS[1], changed |-> FALSE,
                cases |-> cases, total_failed |-> 0, raised |-> "", ended |-> ""]

NextRt == RtSave \/ RtSetLayouts \/ RtStartApps \/ RtCase \/ RtCasesDone \/ RtFinally

SpecRt == InitRt /\ [][NextRt]_vars

---------------------------------------------------------------------------
(* Classifier training loop, Tools/CoreMLTrainer/train.py lines 482-551; the loop of
   beam_train.py lines 119-186 is the same with a fixed checkpoint path.  The weights
   of the model are named by the number of epochs they were trained for; the
   checkpoint file holds the weights saved last, 0 while there is no file. *)

\* every tool's variables but fit
notfit == <<data, args, maps, conv, genvars, trainvars, uni, dl, rt, bpe>>

\* val_total, the size of the validation set
val_total == 4

\* val_acc = 100 * val_correct / val_total
ValAcc(val_correct) == (100 * val_correct) \div val_total

\* numbers of validation samples an epoch can classify correctly
ValCorrect == {0, 1, 2, 4}

\* the first value of epoch at which the loop may stop early (20), scaled down
EarlyStopEpoch == 2

\* a val_acc that is not below the best counts as an improvement
Improved_or_equal(val_acc, best_val_acc) == val_acc >= best_val_acc

\* if val_acc > best_val_acc
Improved(val_acc, best_val_acc) == val_acc > best_val_acc

\* one pass of the loop over the epochs, lines 485-548: training, validation, the
\* checkpoint on a new best, the patience counter and the early stop otherwise
FitEpoch ==
    /\ fit.step = "loop"
    /\ fit.epoch < fit.epochs
    /\ \E val_correct \in ValCorrect :
          LET val_acc == ValAcc(val_correct)
              weights == fit.weights + 1
              better == Improved(val_acc, fit.best_val_acc)
              patience_counter == fit.patience_counter + 1
          IN  fit' = [fit EXCEPT
                         !.weights = weights,
                         !.val_history = Append(@, val_acc),
                         !.best_val_acc = IF better THEN val_acc ELSE @,
                         !.patience_counter = IF better THEN 0 ELSE patience_counter,
                         !.checkpoint = IF better THEN weights ELSE @,
                         !.epoch = @ + 1,
                         !.step = IF ~better /\ patience_counter >= fit.patience
                                     /\ fit.epoch >= EarlyStopEpoch
                                  THEN "done" ELSE "loop"]
    /\ UNCHANGED <<pc, notfit>>

\* the loop ends after args.epochs epochs, lines 550-551
FitEnd ==
    /\ fit.step = "loop"
    /\ fit.epoch = fit.epochs
    /\ fit' = [fit EXCEPT !.step = "done"]
    /\ UNCHANGED <<pc, notfit>>

\* values of --epochs and --patience
FitEpochs == {3, 4}
FitPatience == {1, 2, 10}

\* lines 482-483; fit.epoch is the number of epochs completed
InitFit ==
    /\ pc = "idle"
    /\ GeneratorIdle
    /\ TrainIdle
    /\ uni = EmptyDict /\ dl = EmptyDict /\ rt = EmptyDict /\ bpe = EmptyDict
    /\ \E epochs \in FitEpochs, patience \in FitPatience :
          fit = [step |-> "loop", epochs |-> epochs, patience |-> patience, epoch |-> 0,
                 weights |-> 0, val_history |-> << >>, best_val_acc |-> 0,
                 patience_counter |-> 0, checkpoint |-> 0]

NextFit == FitEpoch \/ FitEnd

SpecFit == InitFit /\ [][NextFit]_vars

---------------------------------------------------------------------------
(* BPE server, OMFK/Sources/Resources/bpe_server.py: one request per line of standard
   input, one answer per request.  bpe.input is what the client sends, bpe.read the
   number of lines taken from it, bpe.pending the output not yet flushed, bpe.stdout
   the lines the client can read.  The SentencePiece model is not part of the source:
   pieces of two characters stand for its segmentation. *)

\* every tool's variables but bpe
notbpe == <<data, args, maps, conv, genvars, trainvars, uni, dl, rt, fit>>

\* sp.EncodeAsPieces(text)
RECURSIVE EncodeAsPieces(_)
EncodeAsPieces(text) ==
    IF Len(text) <= 2 THEN (IF text = << >> THEN << >> ELSE <<text>>)
    ELSE <<SubSeq(text, 1, 2)>> \o EncodeAsPieces(SubSeq(text, 3, Len(text)))

\* the decimal digits of a natural number, as str() and the format give them
DigitChar(d) ==
    CASE d = 0 -> "0" [] d = 1 -> "1" [] d = 2 -> "2" [] d = 3 -> "3" [] d = 4 -> "4"
      [] d = 5 -> "5" [] d = 6 -> "6" [] d = 7 -> "7" [] d = 8 -> "8" [] d = 9 -> "9"

RECURSIVE Str(_)
Str(n) == IF n < 10 THEN <<DigitChar(n)>> ELSE Str(n \div 10) \o <<DigitChar(n % 10)>>

\* the thousandths of num / den rounded to the nearest, a half to the even one
Thousandths(num, den) ==
    LET q == (1000 * num) \div den
        r == (1000 * num) % den
    IN  IF 2 * r > den \/ (2 * r = den /\ q % 2 = 1) THEN q + 1 ELSE q

\* f"{score:.3f}" for score = num / den
FormatScore(num, den) ==
    LET t == Thousandths(num, den)
    IN  Str(t \div 1000) \o <<".">>
        \o <<DigitChar((t \div 100) % 10), DigitChar((t \div 10) % 10), DigitChar(t % 10)>>

\* lines 12-20: the text printed for one line of input
Answer(line) ==
    LET text == Strip(line)
        tokens == EncodeAsPieces(text)
        den == IF Len(text) > 1 THEN Len(text) ELSE 1
    IN  IF text = << >> THEN Str(0)
        ELSE Str(Len(tokens)) \o <<"|">> \o FormatScore(Len(tokens), den)

\* print(text) with the line left in the buffer of sys.stdout
WriteLine_buffered(out, text) ==
    [pending |-> Append(out.pending, text), stdout |-> out.stdout]

\* print(text, flush=True): the line and all before it reach the pipe
WriteLine(out, text) ==
    [pending |-> << >>, stdout |-> out.stdout \o Append(out.pending, text)]

\* one pass of the loop, lines 11-20
BpeServe ==
    /\ bpe.step = "serving"
    /\ bpe.read < Len(bpe.input)
    /\ LET out == WriteLine([pending |-> bpe.pending, stdout |-> bpe.stdout],
                            Answer(bpe.input[bpe.read + 1]))
       IN  bpe' = [bpe EXCEPT !.read = @ + 1, !.pending = out.pending,
                              !.stdout = out.stdout]
    /\ UNCHANGED <<pc, notbpe>>

\* end of input: the loop and the program end, the interpreter flushes sys.stdout
BpeEof ==
    /\ bpe.step = "serving"
    /\ bpe.read = Len(bpe.input)
    /\ bpe' = [bpe EXCEPT !.step = "exited", !.pending = << >>,
                          !.stdout = bpe.stdout \o bpe.pending]
    /\ UNCHANGED <<pc, notbpe>>

\* request lines: empty, blank, one to four letters, some with spaces around
BpeLines ==
    {<< >>, <<Space, Space>>, <<"a">>, <<"a", "b">>, <<Space, "a", "b", "a", Space>>,
     <<"a", "b", "a", "b">>, <<"a", Space, "b">>}

InitBpe ==
    /\ pc = "idle"
    /\ GeneratorIdle
    /\ TrainIdle
    /\ uni = EmptyDict /\ dl = EmptyDict /\ rt = EmptyDict /\ fit = EmptyDict
    /\ \E input \in SeqsUpTo(BpeLines, MaxLines) :
          bpe = [step |-> "serving", input |-> input, read |-> 0,
                 pending |-> << >>, stdout |-> << >>]

NextBpe == BpeServe \/ BpeEof

SpecBpe == InitBpe /\ [][NextBpe]_vars

---------------------------------------------------------------------------
(* What a layout source says, read off the data directly *)

Mods == {"n", "s"}

\* the character field of layout l at key k with modifier mod, None when there is none
CharAt(d, l, k, mod) ==
    IF k \in DOMAIN d.map /\ l \in DOMAIN d.map[k] /\ mod \in DOMAIN d.map[k][l]
    THEN d.map[k][l][mod] ELSE None

\* layout l defines a character at (k, mod)
Defines(d, l, k, mod) == CharAt(d, l, k, mod) # None /\ Len(CharAt(d, l, k, mod)) > 0

\* the (key, modifier) positions at which both layouts define a character
SharedPositions(d, s, t) ==
    {p \in Keys \X Mods : Defines(d, s, p[1], p[2]) /\ Defines(d, t, p[1], p[2])}

\* the characters of s at the shared positions
SharedChars(d, s, t) == {CharAt(d, s, p[1], p[2])[1] : p \in SharedPositions(d, s, t)}

\* no key of the source holds an object for both layouts
NoSharedKey(d, s, t) ==
    \A k \in DOMAIN d.map : ~(s \in DOMAIN d.map[k] /\ t \in DOMAIN d.map[k])

\* rank of a position in the order the map construction visits them
KeyIndex(d, k) == CHOOSE i \in 1..Len(d.order) : d.order[i] = k
Rank(d, p) == 2 * KeyIndex(d, p[1]) + (IF p[2] = "s" THEN 1 ELSE 0)

\* the layout lists in effect: the presets, a language cut to the focus layout when
\* that layout is one of its presets
Variants(lang, focus_layout) ==
    IF focus_layout # << >> /\ focus_layout[1] = lang
       /\ InList(focus_layout, LayoutPresets[lang])
    THEN <<focus_layout>> ELSE LayoutPresets[lang]

\* every (source language, target language, source variant index, target variant index)
CandidateIds ==
    {c \in Langs \X Langs \X (1..3) \X (1..3) :
        /\ c[1] # c[2]
        /\ c[3] <= Len(Variants(c[1], args.focus_layout))
        /\ c[4] <= Len(Variants(c[2], args.focus_layout))}

SrcLayout(c) == Variants(c[1], args.focus_layout)[c[3]]
TgtLayout(c) == Variants(c[2], args.focus_layout)[c[4]]
Candidate(c) ==
    maps[<<c[2], "from", c[1]>>][(c[3] - 1) * Len(Variants(c[2], args.focus_layout)) + c[4]]

Loaded == pc \in {"loaded", "converted"}

---------------------------------------------------------------------------
(* Claims *)

\* C1: convert_text(text, map) has exactly as many characters as text, for every
\* text and every candidate map load_layout_map builds.
C1_LengthPreserved ==
    pc = "converted" => Len(conv.out) = Len(conv.text)

\* C1 witness: a text of two characters, one substituted and one passed through
C1_Witness ==
    /\ pc = "converted"
    /\ Len(conv.text) = 2
    /\ conv.out[1] # conv.text[1]
    /\ conv.out[2] = conv.text[2]
    /\ <<conv.text[2]>> \notin DOMAIN conv.mapping

\* C2 as stated: a text made only of characters of L1 at positions L2 also defines
\* comes back unchanged from L1 -> L2 -> L1.
C2_RoundTrip_Original ==
    (pc = "converted"
        /\ \A i \in 1..Len(conv.text) :
              conv.text[i] \in SharedChars(data, conv.s_layout, conv.t_layout))
    => conv.back = conv.text

\* L2 has no character on two shared positions at which the characters of L1 differ
TargetSeparates(d, s, t) ==
    \A p \in SharedPositions(d, s, t), q \in SharedPositions(d, s, t) :
        CharAt(d, t, p[1], p[2]) = CharAt(d, t, q[1], q[2])
        => CharAt(d, s, p[1], p[2]) = CharAt(d, s, q[1], q[2])

\* C2 amended: the round trip returns the text when, in addition, L2 has no character
\* on two shared positions where L1 has different characters.
C2_RoundTrip ==
    (pc = "converted"
        /\ TargetSeparates(data, conv.s_layout, conv.t_layout)
        /\ \A i \in 1..Len(conv.text) :
              conv.text[i] \in SharedChars(data, conv.s_layout, conv.t_layout))
    => conv.back = conv.text

\* C2 witness: a two-character text of shared characters, changed by the first
\* conversion and restored by the second
C2_Witness ==
    /\ pc = "converted"
    /\ TargetSeparates(data, conv.s_layout, conv.t_layout)
    /\ Len(conv.text) = 2
    /\ conv.text[1] # conv.text[2]
    /\ \A i \in 1..2 : conv.text[i] \in SharedChars(data, conv.s_layout, conv.t_layout)
    /\ \A i \in 1..2 : conv.out[i] # conv.text[i]
    /\ conv.back = conv.text

\* C3 as stated: at every position both layouts define, the candidate map sends the
\* source character to the target character of the same position.
C3_SamePosition_Original ==
    Loaded =>
        \A c \in CandidateIds : \A p \in SharedPositions(data, SrcLayout(c), TgtLayout(c)) :
            LET s_char == CharAt(data, SrcLayout(c), p[1], p[2])
            IN  /\ s_char \in DOMAIN Candidate(c)
                /\ Candidate(c)[s_char] = CharAt(data, TgtLayout(c), p[1], p[2])

\* C3 amended: the candidate map sends the source character of a shared position to
\* the target character of the last shared position (in key order, base before shift)
\* that has that source character; with a source character on one shared position
\* only, this is the target character of the same position.
C3_LastPosition ==
    Loaded =>
        \A c \in CandidateIds :
            LET shared == SharedPositions(data, SrcLayout(c), TgtLayout(c))
            IN  \A p \in shared :
                  LET s_char == CharAt(data, SrcLayout(c), p[1], p[2])
                      same == {q \in shared : CharAt(data, SrcLayout(c), q[1], q[2]) = s_char}
                      last == CHOOSE q \in same : \A r \in same : Rank(data, r) <= Rank(data, q)
                  IN  /\ s_char \in DOMAIN Candidate(c)
                      /\ Candidate(c)[s_char] = CharAt(data, TgtLayout(c), last[1], last[2])

\* C3 witness: key G gives "g" in en_us and "ru_p" in ru_pc, and the ru_pc -> en_us
\* map sends "ru_p" to "g"; en_us has "g" on both states of key G, and the
\* en_us -> ru_pc map sends it to the shifted character of ru_pc
C3_Witness ==
    /\ pc = "loaded"
    /\ CharAt(data, en_us, KeyG, "n") = <<"g">>
    /\ CharAt(data, en_us, KeyG, "s") = <<"g">>
    /\ CharAt(data, ru_pc, KeyG, "n") = <<"ru_p">>
    /\ CharAt(data, ru_pc, KeyG, "s") = <<"ru_r">>
    /\ maps[<<"en", "from", "ru">>][1][<<"ru_p">>] = <<"g">>
    /\ maps[<<"ru", "from", "en">>][1][<<"g">>] = <<"ru_r">>

\* C4: under each pair key the list holds one candidate per (source variant, target
\* variant), and every entry of a candidate is a character pair of one position of
\* that variant pair.
C4_OnePerVariantPair ==
    Loaded =>
        /\ \A src \in Langs, tgt \in Langs :
              src # tgt =>
                /\ <<tgt, "from", src>> \in DOMAIN maps
                /\ Len(maps[<<tgt, "from", src>>])
                     = Len(Variants(src, args.focus_layout)) * Len(Variants(tgt, args.focus_layout))
        /\ \A c \in CandidateIds : \A s_char \in DOMAIN Candidate(c) :
              \E p \in Keys \X Mods :
                  /\ CharAt(data, SrcLayout(c), p[1], p[2]) = s_char
                  /\ CharAt(data, TgtLayout(c), p[1], p[2]) = Candidate(c)[s_char]

\* C4 witness: six candidates from Russian to Hebrew, those of he_standard and
\* he_qwerty different and non-empty
C4_Witness ==
    /\ pc = "loaded"
    /\ Len(maps[<<"he", "from", "ru">>]) = 6
    /\ maps[<<"he", "from", "ru">>][1] # maps[<<"he", "from", "ru">>][2]
    /\ DOMAIN maps[<<"he", "from", "ru">>][1] # {}
    /\ DOMAIN maps[<<"he", "from", "ru">>][2] # {}

\* the mapped or passed-through character the substitution yields for c
Substitute(mapping, c) == IF <<c>> \in DOMAIN mapping THEN mapping[<<c>>][1] ELSE c

\* the characters a layout has on some key
CharsOf(d, l) ==
    {CharAt(d, l, p[1], p[2])[1] : p \in {q \in Keys \X Mods : Defines(d, l, q[1], q[2])}}

\* C8: the output of convert_text (both copies) has, at each position, the map's value
\* for the input character when the map has it and the input character otherwise; a
\* character on no key of either layout is unchanged in both directions.
C8_PositionWise ==
    pc = "converted" =>
        /\ Len(conv.out) = Len(conv.text)
        /\ Len(conv.out_cases) = Len(conv.text)
        /\ Len(conv.back) = Len(conv.text)
        /\ \A j \in 1..Len(conv.text) :
              /\ conv.out[j] = Substitute(conv.mapping, conv.text[j])
              /\ conv.out_cases[j] = Substitute(conv.mapping, conv.text[j])
              /\ conv.text[j] \notin CharsOf(data, conv.s_layout) \cup CharsOf(data, conv.t_layout)
                    => conv.out[j] = conv.text[j] /\ conv.back[j] = conv.text[j]

\* C8 witness: a mapped character followed by a space, the space kept
C8_Witness ==
    /\ pc = "converted"
    /\ Len(conv.text) = 2
    /\ <<conv.text[1]>> \in DOMAIN conv.mapping
    /\ conv.out[1] = conv.mapping[<<conv.text[1]>>][1]
    /\ conv.text[2] = Space
    /\ conv.out[2] = Space
    /\ conv.back[2] = Space

\* C9: a candidate of two layouts with no key in common (a layout missing from the
\* source included) is built and is the empty map, and converting with it returns the
\* text.
C9_NoSharedKey ==
    /\ Loaded =>
          \A c \in CandidateIds :
              NoSharedKey(data, SrcLayout(c), TgtLayout(c)) => Candidate(c) = EmptyDict
    /\ (pc = "converted" /\ NoSharedKey(data, conv.s_layout, conv.t_layout))
          => conv.mapping = EmptyDict /\ conv.out = conv.text

\* C9 witness: ru_pc only on key H, en_us only on key G, a Russian text unchanged
C9_Witness ==
    /\ pc = "converted"
    /\ conv.s_layout = ru_pc
    /\ conv.t_layout = en_us
    /\ DOMAIN data.map[KeyG] \cap {en_us, ru_pc} = {en_us}
    /\ DOMAIN data.map[KeyH] \cap {en_us, ru_pc} = {ru_pc}
    /\ NoSharedKey(data, ru_pc, en_us)
    /\ conv.text = <<"ru_p", "ru_p">>
    /\ conv.out = conv.text

\* the rows of the output file
Rows == Tail(output)

InRun == pc \in {"loop", "done"}

\* the characters of a phrase: the words in order, one space between two words
PhraseChar(words, j) ==
    LET w == CHOOSE w \in 1..Len(words) :
                 LET before == IF w = 1 THEN 0
                               ELSE Len(JoinSpace(SubSeq(words, 1, w - 1))) + 1
                 IN  before < j /\ j <= before + Len(words[w]) + 1
        before == IF w = 1 THEN 0 ELSE Len(JoinSpace(SubSeq(words, 1, w - 1))) + 1
    IN  IF j = before + Len(words[w]) + 1 THEN Space ELSE words[w][j - before]

PhraseLen(words) == Len(JoinSpace(words))

\* C5: a sample of class I_from_T is made of 1..max_phrase_len words of I's lexicon,
\* converted with one candidate built from a layout of I as source and a layout of T as
\* target: each character is T's character at a position where I's layout has the
\* intended one, or the intended character itself when that candidate has no such
\* position.
C5_IntendedToTyped ==
    (InRun /\ sample # EmptyDict /\ Len(sample.class_name) = 3) =>
        LET intended_lang == sample.class_name[1]
            typed_lang == sample.class_name[3]
        IN  /\ Len(sample.words) \in 1..args.max_phrase_len
            /\ \A w \in 1..Len(sample.words) : InList(sample.words[w], SEEDS[intended_lang])
            /\ sample.ret.label = sample.class_name
            /\ Len(sample.ret.text) = PhraseLen(sample.words)
            /\ \E c \in CandidateIds :
                  /\ c[1] = intended_lang
                  /\ c[2] = typed_lang
                  /\ \A j \in 1..PhraseLen(sample.words) :
                        LET intended == PhraseChar(sample.words, j)
                            here == {p \in SharedPositions(data, SrcLayout(c), TgtLayout(c)) :
                                        CharAt(data, SrcLayout(c), p[1], p[2]) = <<intended>>}
                        IN  IF here = {} THEN sample.ret.text[j] = intended
                            ELSE \E p \in here :
                                    CharAt(data, TgtLayout(c), p[1], p[2])
                                        = <<sample.ret.text[j]>>

\* C5 witness: class ru_from_en, two Russian words, those typed on ru_pc shown in
\* Latin letters with the space kept
C5_Witness ==
    /\ InRun
    /\ sample # EmptyDict
    /\ sample.class_name = <<"ru", "from", "en">>
    /\ sample.words = << <<"ru_g">>, <<"ru_p", "ru_r">> >>
    /\ sample.ret.text = <<"ru_g", Space, "g", "h">>
    /\ output[Len(output)] = [text |-> <<"ru_g", Space, "g", "h">>,
                              label |-> <<"ru", "from", "en">>]

\* C6: with no candidate for the class in the table (no entry, or an empty list),
\* generate_sample returns the text "x" with the class label.
C6_Sentinel ==
    (pc = "sampled" /\ Len(sample.class_name) = 3) =>
        LET key == <<sample.class_name[3], "from", sample.class_name[1]>>
        IN  (key \notin DOMAIN maps \/ maps[key] = << >>)
            => sample.ret = [text |-> <<"x">>, label |-> sample.class_name]

\* C6 witness: the sentinel returned for a class whose list is empty, and for one
\* whose pair key is missing
C6_Witness ==
    /\ pc = "sampled"
    /\ sample.class_name = <<"he", "from", "ru">>
    /\ <<"ru", "from", "he">> \notin DOMAIN maps
    /\ <<"he", "from", "ru">> \in DOMAIN maps
    /\ maps[<<"he", "from", "ru">>] # << >>
    /\ sample.ret = [text |-> <<"x">>, label |-> <<"he", "from", "ru">>]

\* C10: with balance = 1.0 every row written has a pure label, and a finished run
\* has written count rows.
C10_PureOnly ==
    (InRun /\ args.balance = 100) =>
        /\ \A j \in 1..Len(Rows) : Rows[j].label \in {<<"ru">>, <<"en">>, <<"he">>}
        /\ pc = "done" => Len(Rows) = args.count

\* C10 witness: a finished run of the largest count with balance 1.0, in focus mode
C10_Witness ==
    /\ pc = "done"
    /\ args.balance = 100
    /\ args.focus_layout = he_qwerty
    /\ args.count = MaxCount
    /\ Len(Rows) = MaxCount
    /\ \A j \in 1..Len(Rows) : Rows[j].label = <<"he">>

\* C11: in focus mode with a focus layout of language L, every label written is L or
\* a wrong-layout class with L as the intended or the typed language.
C11_FocusLabels ==
    (InRun /\ args.focus_layout # NoFocus /\ Head(args.focus_layout) \in Langs) =>
        LET L == Head(args.focus_layout)
        IN  \A j \in 1..Len(Rows) :
              \/ Rows[j].label = <<L>>
              \/ /\ Len(Rows[j].label) = 3
                 /\ Rows[j].label[2] = "from"
                 /\ Rows[j].label[1] = L \/ Rows[j].label[3] = L

\* C11 witness: a finished run focused on he_qwerty that wrote a wrong-layout row with
\* Hebrew as the typed language
C11_Witness ==
    /\ pc = "done"
    /\ args.focus_layout = he_qwerty
    /\ Len(Rows) = MaxCount
    /\ Rows[Len(Rows)].label = <<"ru", "from", "he">>

\* C12: the module-level SEEDS table is the same after a dataset run as before it,
\* also when a corpus directory overrides a lexicon.
C12_GlobalSeedsUnchanged == pc = "done" => SEEDS = DefaultSeeds

\* the number of double quotes of a text before position j
QuotesBefore(text, j) == Cardinality({h \in 1..(j - 1) : text[h] = "\""})

\* C13: the file is the header and then one row per sample, count rows when the run
\* has finished; the text field of a row is the sample's text between two double
\* quotes with each of its double quotes doubled when the text has a comma or a double
\* quote, and the text itself otherwise; the label field is the sample's label.
C13_CsvRows ==
    InRun =>
        /\ output[1] = Header
        /\ Len(Rows) = loop_i
        /\ pc = "done" => Len(Rows) = args.count
        /\ Rows # << >> =>
              LET raw == sample.ret.text
                  field == Rows[Len(Rows)].text
              IN  /\ Rows[Len(Rows)].label = sample.ret.label
                  /\ IF \E j \in 1..Len(raw) : raw[j] \in {",", "\""}
                     THEN /\ Len(field) = Len(raw) + 2 + QuotesBefore(raw, Len(raw) + 1)
                          /\ field[1] = "\""
                          /\ field[Len(field)] = "\""
                          /\ \A j \in 1..Len(raw) :
                                /\ field[1 + j + QuotesBefore(raw, j)] = raw[j]
                                /\ raw[j] = "\"" =>
                                      field[2 + j + QuotesBefore(raw, j)] = "\""
                     ELSE field = raw

\* C13 witness: a finished run of the largest count whose last sample g," (a word of
\* the corpus) was written as "g,"""
C13_Witness ==
    /\ pc = "done"
    /\ args.count = MaxCount
    /\ Len(output) = 1 + MaxCount
    /\ sample.ret.text = <<"g", ",", "\"">>
    /\ Rows[Len(Rows)] = [text |-> <<"\"", "g", ",", "\"", "\"", "\"">>, label |-> <<"en">>]

Windows(lines, lang) ==
    UNION {{<<j, i>> : i \in 1..(Len(normalize_text(lines[j], lang)) - 2)} :
              j \in 1..Len(lines)}

WindowText(lines, lang, w) == SubSeq(normalize_text(lines[w[1]], lang), w[2], w[2] + 2)

\* the sum over the lines of max(0, n - 2), n the length of the normalized line
RECURSIVE WindowSum(_, _)
WindowSum(lines, lang) ==
    IF lines = << >> THEN 0
    ELSE LET n == Len(normalize_text(Head(lines), lang))
         IN  (IF n - 2 > 0 THEN n - 2 ELSE 0) + WindowSum(Tail(lines), lang)

\* C14: after training, the count of a trigram is the number of windows of the
\* normalized lines that read it (windows inside one line only), and total_count is the
\* sum of the counts and the sum over the lines of max(0, n - 2).
C14_CountConservation ==
    (pc # "start" /\ input_file.exists) =>
        LET lines == input_file.lines
            lang == targs.lang
            windows == Windows(lines, lang)
        IN  /\ DOMAIN trigram_counts = {WindowText(lines, lang, w) : w \in windows}
            /\ \A t \in DOMAIN trigram_counts :
                  trigram_counts[t]
                      = Cardinality({w \in windows : WindowText(lines, lang, w) = t})
            /\ SumValues(trigram_counts) = WindowSum(lines, lang)
            /\ model # EmptyDict =>
                  /\ model.total_count = SumValues(trigram_counts)
                  /\ model.total_count = WindowSum(lines, lang)

\* C14 witness: "ab Ab" gives the two windows of abab, the short line "ab" gives none
\* and no window runs from one line into the other
C14_Witness ==
    /\ pc = "exited"
    /\ input_file.lines = << <<"a", "b", Space, "A", "b">>, <<"a", "b">> >>
    /\ targs.lang = "en"
    /\ trigram_counts = [t \in {<<"a", "b", "a">>, <<"b", "a", "b">>} |-> 1]
    /\ saved # EmptyDict
    /\ saved.total_count = 2

\* C15: for a corpus with at least one trigram and any accepted k, every trigram's
\* probability (c + k) / (total_count + k * unique_trigrams) is above 0 and at most 1,
\* and every stored log-probability is at most 0.
C15_ProbabilityRange ==
    (pc # "start" /\ input_file.exists /\ input_file.utf8 /\ trigram_counts # EmptyDict) =>
        LET k == targs.smoothing_k
            den == SumValues(trigram_counts) + k * Cardinality(DOMAIN trigram_counts)
        IN  /\ den # 0
            /\ \A t \in DOMAIN trigram_counts :
                  /\ (trigram_counts[t] + k) * den > 0
                  /\ Abs(trigram_counts[t] + k) <= Abs(den)
            /\ model # EmptyDict => \A t \in DOMAIN model.trigrams : model.trigrams[t] <= 0

\* C16: the artifact's smoothing_k, total_count and unique_trigrams are the k, the count
\* sum and the number of distinct trigrams its log-probabilities were computed with;
\* for k > 0 the floor k / (total_count + k * unique_trigrams) taken from the artifact
\* is below the probability of every stored trigram, and its rounded logarithm is not
\* above any stored one.
C16_ArtifactFloor ==
    model # EmptyDict =>
        LET k == model.smoothing_k
            den == model.total_count + k * model.unique_trigrams
        IN  /\ k = targs.smoothing_k
            /\ model.total_count = SumValues(trigram_counts)
            /\ model.unique_trigrams = Cardinality(DOMAIN trigram_counts)
            /\ DOMAIN model.trigrams = DOMAIN trigram_counts
            /\ \A t \in DOMAIN model.trigrams :
                  model.trigrams[t] = RoundedLog(trigram_counts[t] + k, den)
            /\ saved # EmptyDict => saved = model
            /\ k > 0 =>
                  /\ den > 0
                  /\ \A t \in DOMAIN model.trigrams :
                        /\ k * den < (trigram_counts[t] + k) * den
                        /\ RoundedLog(k, den) <= model.trigrams[t]

\* C16 witness: the lines ababa and "ab Ab" with k = 1 give total_count 5 and 2 distinct
\* trigrams, stored as ln(4/7) = -0.56 and ln(3/7) = -0.85; the floor is ln(1/7) = -1.95
C16_Witness ==
    /\ pc = "exited"
    /\ input_file.lines = << <<"a", "b", "a", "b", "a">>, <<"a", "b", Space, "A", "b">> >>
    /\ saved = [lang |-> "en", n |-> 3, version |-> 1, smoothing_k |-> 1,
                total_count |-> 5, unique_trigrams |-> 2,
                trigrams |-> [t \in {<<"a", "b", "a">>, <<"b", "a", "b">>} |->
                                 IF t = <<"a", "b", "a">> THEN -56 ELSE -85]]
    /\ RoundedLog(1, 7) = -195

\* the input file is missing or not UTF-8, or training found no trigram, or
\* validate_model returned false
RunFails ==
    \/ ~input_file.exists
    \/ ~input_file.utf8
    \/ trigram_counts = EmptyDict
    \/ valid.called /\ ~valid.ok

\* C17: the model is written only after training found a trigram and validate_model
\* returned true; a run whose input is missing or not UTF-8, that finds no trigram or
\* whose validation fails ends with exit status 1 without a call of save_model.
C17_SaveOnlyValidated ==
    /\ saved # EmptyDict =>
          /\ trigram_counts # EmptyDict
          /\ valid.called /\ valid.ok
          /\ saved = model
    /\ (pc # "start" /\ RunFails) =>
          /\ pc = "exited"
          /\ exit_status = 1
          /\ saved = EmptyDict
          /\ error \in {"FileNotFoundError", "UnicodeDecodeError", "NoTrigrams",
                        "InvalidModel"}

\* C17 witness: a run on a file that stops decoding after a line with trigrams has
\* ended with status 1 and nothing saved
C17_Witness ==
    /\ pc = "exited"
    /\ input_file.exists
    /\ ~input_file.utf8
    /\ trigram_counts # EmptyDict
    /\ exit_status = 1
    /\ saved = EmptyDict

\* a positive log-probability in the model's trigram map
HasPositive(m) ==
    /\ "trigrams" \in DOMAIN m
    /\ \E t \in DOMAIN m["trigrams"] : m["trigrams"][t] > 0

\* C18: a model with all required fields and a positive log-probability passes
\* validate_model with a warning, and main goes on to save it.
C18_PositiveIsWarning ==
    (valid.called /\ HasPositive(model)
        /\ {"lang", "n", "version", "trigrams"} \subseteq DOMAIN model) =>
        /\ valid.ok
        /\ "positive" \in valid.warnings
        /\ pc \in {"validated", "exited"}
        /\ pc = "exited" =>
              \/ saved = model /\ exit_status = 0 /\ error = ""
              \/ saved = EmptyDict /\ exit_status = 1 /\ error = "IOError"

\* C18 witness: a model with the log-probability 0.05 was validated and saved
C18_Witness ==
    /\ pc = "exited"
    /\ HasPositive(model)
    /\ model["trigrams"] = [t \in {<<"a", "b", "a">>, <<"b", "a", "b">>} |->
                                IF t = <<"a", "b", "a">> THEN 5 ELSE -69]
    /\ "positive" \in valid.warnings
    /\ saved = model
    /\ exit_status = 0

\* the permutations of 1..n
LineOrders(n) ==
    {f \in [1..n -> 1..n] : \A a, b \in 1..n : f[a] = f[b] => a = b}

\* C20: train_model on any permutation of the corpus lines ends the same way with the
\* same counts and the same model.
C20_LineOrder ==
    (pc # "start" /\ input_file.exists /\ input_file.utf8) =>
        \A f \in LineOrders(Len(input_file.lines)) :
            LET permuted == [j \in 1..Len(input_file.lines) |-> input_file.lines[f[j]]]
                ret == train_model([input_file EXCEPT !.lines = permuted],
                                   targs.lang, targs.smoothing_k)
            IN  /\ ret.error = error \/ error \in {"InvalidModel", "IOError"}
                /\ ret.counts = trigram_counts
                /\ ret.model = model

\* C20 witness: two lines that share a trigram, one of them holding it twice, were
\* trained on in the order that has the single occurrence last
C20_Witness ==
    /\ pc = "trained"
    /\ input_file.lines = << <<"a", "b", "a", "b", "a">>, <<"a", "b", "a", "b">> >>
    /\ trigram_counts[<<"a", "b", "a">>] = 3
    /\ model.total_count = 5

\* main is in focus mode: the prefix of --focus-layout is a language
InFocusMode == args.focus_layout # NoFocus /\ Head(args.focus_layout) \in Langs

\* the candidate maps between the focus layout and the preset variants of another
\* language, in the direction of a pair key
FocusCandidates(key) ==
    LET L == Head(args.focus_layout)
        other == IF key[1] = L THEN key[3] ELSE key[1]
    IN  [v \in 1..Len(LayoutPresets[other]) |->
            IF key[3] = L
            THEN BuildMapping(data, args.focus_layout, LayoutPresets[other][v])
            ELSE BuildMapping(data, LayoutPresets[other][v], args.focus_layout)]

\* in focus mode the candidates of the pairs with the focus language are those of the
\* focus layout, and a wrong-layout sample is converted with one of them
FocusVariantOnly ==
    LET L == Head(args.focus_layout)
    IN  /\ \A other \in Langs \ {L} :
              /\ maps[<<other, "from", L>>] = FocusCandidates(<<other, "from", L>>)
              /\ maps[<<L, "from", other>>] = FocusCandidates(<<L, "from", other>>)
        /\ (sample # EmptyDict /\ Len(sample.class_name) = 3) =>
              LET key == <<sample.class_name[3], "from", sample.class_name[1]>>
              IN  \E v \in 1..Len(FocusCandidates(key)) :
                    sample.ret.text
                        = convert_text(JoinSpace(sample.words), FocusCandidates(key)[v])

\* C25 as stated: whenever main is in focus mode, the candidates for the focus language
\* come from the focus layout variant only and every wrong-layout sample is converted
\* with one of them.
C25_FocusVariantOnly_Original == (InRun /\ InFocusMode) => FocusVariantOnly

\* C25 amended: the same, when the focus layout is one of the preset variants of its
\* language.
C25_FocusVariantOnly ==
    (InRun /\ InFocusMode
        /\ InList(args.focus_layout, LayoutPresets[Head(args.focus_layout)]))
    => FocusVariantOnly

\* C25 witness: focused on he_qwerty, a Russian phrase shown in the Hebrew layout was
\* converted with the candidate of he_qwerty, which differs from that of he_standard
C25_Witness ==
    /\ pc = "done"
    /\ args.focus_layout = he_qwerty
    /\ sample # EmptyDict
    /\ sample.class_name = <<"ru", "from", "he">>
    /\ Len(maps[<<"he", "from", "ru">>]) = 2
    /\ sample.ret.text
          = convert_text(JoinSpace(sample.words), BuildMapping(data, ru_pc, he_qwerty))
    /\ sample.ret.text
          # convert_text(JoinSpace(sample.words), BuildMapping(data, ru_pc, he_standard))

\* the sum of c + k over a table of counts
RECURSIVE SmoothedSum(_, _)
SmoothedSum(counts, k) ==
    IF DOMAIN counts = {} THEN 0
    ELSE LET t == CHOOSE t \in DOMAIN counts : TRUE
         IN  counts[t] + k + SmoothedSum([u \in (DOMAIN counts) \ {t} |-> counts[u]], k)

\* C26: the numerators c + k of the stored trigrams add up to the denominator
\* total_count + k * unique_trigrams of the artifact, so the probabilities before
\* rounding sum to 1; for k > 0 adding the floor numerator k of one unseen trigram
\* gives more than the denominator.
C26_ObservedSumToOne ==
    model # EmptyDict =>
        LET k == model.smoothing_k
            den == model.total_count + k * model.unique_trigrams
            observed == SmoothedSum([t \in DOMAIN model.trigrams |-> trigram_counts[t]], k)
        IN  /\ observed = den
            /\ k > 0 => den > 0 /\ observed + k > den

\* C26 witness: ababa and aaa with k = 2: numerators 4, 3, 3 and denominator 4 + 2 * 3
C26_Witness ==
    /\ pc = "exited"
    /\ input_file.lines = << <<"a", "b", "a", "b", "a">>, <<"a", "a", "a">> >>
    /\ saved # EmptyDict
    /\ saved.smoothing_k = 2
    /\ saved.total_count = 4
    /\ saved.unique_trigrams = 3
    /\ SmoothedSum(trigram_counts, 2) = 10

\* C28: after load_layout_map, the key generate_sample looks up for each wrong-layout
\* class holds at least one candidate, and the candidate of two layouts that share no
\* position in the layout source is the empty map.
C28_CandidateForEveryClass ==
    Loaded =>
        /\ \A j \in 1..Len(CLASSES) :
              HasFrom(CLASSES[j]) =>
                  LET key == <<CLASSES[j][3], "from", CLASSES[j][1]>>
                  IN  /\ key \in DOMAIN maps
                      /\ Len(maps[key]) >= 1
                      /\ AvailableMaps(CLASSES[j], maps) = maps[key]
        /\ \A c \in CandidateIds :
              NoSharedKey(data, SrcLayout(c), TgtLayout(c)) => Candidate(c) = EmptyDict

\* C28 witness: he_standard and he_pc are missing from the layout source; the list for
\* Russian typed in Hebrew has its six candidates, the first of them empty
C28_Witness ==
    /\ pc = "loaded"
    /\ args.focus_layout = NoFocus
    /\ \A k \in Keys : he_standard \notin DOMAIN data.map[k] /\ he_pc \notin DOMAIN data.map[k]
    /\ Len(maps[<<"he", "from", "ru">>]) = 6
    /\ maps[<<"he", "from", "ru">>][1] = EmptyDict
    /\ maps[<<"he", "from", "ru">>][2] # EmptyDict


---------------------------------------------------------------------------
(* Unigram trainer: order of the corpus lines *)

\* the words of line j of a corpus that train_unigrams counts
CountedWords(u, j) ==
    LET ws == iter_words(u.file.lines[j], valid_chars_for(u.lang))
    IN  [k \in {h \in 1..Len(ws) : Len(ws[h]) >= u.min_len} |-> ws[k]]

\* the distinct counted words of the corpus, and how often each stands in it
DistinctWords(u) ==
    UNION {{CountedWords(u, j)[k] : k \in DOMAIN CountedWords(u, j)} :
              j \in 1..Len(u.file.lines)}

Occurrences(u, w) ==
    Cardinality({jk \in (1..Len(u.file.lines)) \X (1..7) :
                    /\ jk[2] \in DOMAIN CountedWords(u, jk[1])
                    /\ CountedWords(u, jk[1])[jk[2]] = w})

\* no cut of the table during the scan can drop a word
NoWordDropped(u) ==
    \/ Cardinality(DistinctWords(u)) <= u.prune_max_vocab
    \/ Cardinality(DistinctWords(u)) <= u.prune_keep

\* top_n does not fall between two words of the same count
NoTieCut(u) ==
    \/ u.top_n <= 0
    \/ u.top_n >= Cardinality(DistinctWords(u))
    \/ \E c \in 1..(7 * Len(u.file.lines)) :
          Cardinality({w \in DistinctWords(u) : Occurrences(u, w) >= c}) = u.top_n

\* train_unigrams on every permutation of the lines ends as the run did
SameForEveryOrder(u) ==
    \A f \in LineOrders(Len(u.file.lines)) :
        LET permuted == [j \in 1..Len(u.file.lines) |-> u.file.lines[f[j]]]
            ret == train_unigrams([u.file EXCEPT !.lines = permuted], u.lang, u.top_n,
                                  u.min_len, u.prune_max_vocab, u.prune_keep)
        IN  /\ ret.error = u.error
            /\ ret.result = u.result

\* C21 as stated: train_unigrams returns the same table for every permutation of the
\* corpus lines, for all settings of top_n, min_len, prune_max_vocab and prune_keep.
C21_LineOrder_Original ==
    (uni.step = "end" /\ uni.file.exists /\ uni.file.utf8) => SameForEveryOrder(uni)

\* C21 amended: train_unigrams returns the same table for every permutation of the
\* corpus lines when the corpus has no more distinct counted words than
\* prune_max_vocab or than prune_keep, and top_n does not fall between two words of
\* the same count.
C21_LineOrder ==
    (uni.step = "end" /\ uni.file.exists /\ uni.file.utf8
        /\ NoWordDropped(uni) /\ NoTieCut(uni)) => SameForEveryOrder(uni)

\* C21 witness: the table was cut after the first line without losing a word, and the
\* one word reported is the one of two that stands in both lines
C21_Witness ==
    /\ uni.step = "end"
    /\ uni.file.lines = << <<"a", "a", Space, "b", "b">>, <<"b", "b">> >>
    /\ uni.min_len = 2
    /\ uni.prune_max_vocab = 1
    /\ uni.prune_keep = 3
    /\ uni.top_n = 1
    /\ uni.result = [w \in {<<"b", "b">>} |-> 2]


\* C22: in a run from the command line, after each corpus line has been processed the
\* table holds no more distinct words than prune_max_vocab.
C22_VocabularyCeiling ==
    (uni # EmptyDict /\ uni.from_main /\ uni.lines_read >= 1) =>
        Len(uni.counts) <= uni.prune_max_vocab


---------------------------------------------------------------------------
(* Both trainers: a language tag that is none of ru, en, he *)

---------------------------------------------------------------------------
(* Corpus download: the workers are independent *)

\* the lines in the output file named after a language
WikiLines(l) ==
    IF <<l, "_wiki.jsonl">> \in DOMAIN dl.files THEN dl.files[<<l, "_wiki.jsonl">>].lines
    ELSE << >>

\* every line of every output file is an article of the language the file is named after
OwnLinesOnly ==
    \A f \in DOMAIN dl.files :
        \A j \in 1..Len(dl.files[f].lines) :
            f = <<dl.files[f].lines[j][4][1], "_wiki.jsonl">>

\* the articles of a language that a run alone would save: the first LIMIT of them
ArticlesToSave(l) ==
    [k \in 1..(IF dl.ds[l].size < LIMIT THEN dl.ds[l].size ELSE LIMIT) |->
        JsonLine(Example(l, k))]

\* the batch has returned and every language whose download does not fail has
\* finished with its whole file
BatchSettled ==
    /\ dl.main.step = "returned"
    /\ \A l \in DlLanguages :
          dl.ds[l].fails = "never" =>
              /\ dl.w[l].step = "done"
              /\ ~dl.w[l].failed
              /\ WikiLines(l) = ArticlesToSave(l)

\* C24: at every moment each output file holds only lines written by the worker of its
\* own language, and under every fair interleaving the batch returns with every
\* language that does not fail finished and its file complete, whichever others fail.
C24_IndependentWorkers == []OwnLinesOnly /\ <>[]BatchSettled

\* C24 witness: the batch returned after the Hebrew stream failed behind its first
\* written batch, with the Russian file cut at LIMIT and the English file complete
C24_Witness ==
    /\ dl.main.step = "returned"
    /\ dl.w["he"].failed
    /\ Len(WikiLines("he")) = batch_size
    /\ dl.ds["ru"].size > LIMIT
    /\ Len(WikiLines("ru")) = LIMIT
    /\ dl.ds["en"].fails = "never"
    /\ Len(WikiLines("en")) = dl.ds["en"].size
    /\ BatchSettled


---------------------------------------------------------------------------
(* Test runner: the system layouts at exit *)

\* C27: whenever main has ended after it set the system layouts, the enabled system
\* layouts are those recorded at the start.
C27_LayoutsRestored ==
    (rt.step = "exit" /\ rt.changed) => rt.system = rt.original_layouts


---------------------------------------------------------------------------
(* Training loop: best accuracy, checkpoint, patience *)

\* the highest validation accuracy of the epochs so far
HighestSoFar == CHOOSE a \in {fit.val_history[e] : e \in 1..fit.epoch} :
                    \A e \in 1..fit.epoch : fit.val_history[e] <= a

\* the epochs whose accuracy was above that of every epoch before them and above zero
Improvements ==
    {e \in 1..fit.epoch :
        /\ fit.val_history[e] > 0
        /\ \A d \in 1..(e - 1) : fit.val_history[d] < fit.val_history[e]}

\* the number of epochs after the last of them
SinceImprovement ==
    IF Improvements = {} THEN fit.epoch
    ELSE fit.epoch - (CHOOSE e \in Improvements : \A d \in Improvements : d <= e)

\* C29: at the end of every epoch best_val_acc is the highest validation accuracy so
\* far, a checkpoint that was written holds the weights of the earliest epoch with that
\* accuracy, and patience_counter counts the epochs since the last strict improvement.
C29_BestCheckpointPatience ==
    (fit.epoch >= 1) =>
        /\ fit.best_val_acc = HighestSoFar
        /\ fit.checkpoint # 0 =>
              /\ fit.val_history[fit.checkpoint] = HighestSoFar
              /\ \A e \in 1..(fit.checkpoint - 1) : fit.val_history[e] # HighestSoFar
        /\ fit.patience_counter = SinceImprovement

\* C29 witness: the best accuracy was reached in the first epoch and again in the
\* second, then a lower one followed; the checkpoint is that of the first
C29_Witness ==
    /\ fit.val_history = <<50, 50, 25>>
    /\ fit.best_val_acc = 50
    /\ fit.checkpoint = 1
    /\ fit.patience_counter = 2


---------------------------------------------------------------------------
(* BPE server: one answer per request *)

\* the number a run of decimal digits stands for
DigitValue(c) == CHOOSE d \in 0..9 : DigitChar(d) = c
IsDigits(chars) ==
    /\ chars # << >>
    /\ \A j \in 1..Len(chars) : \E d \in 0..9 : DigitChar(d) = chars[j]
RECURSIVE ParseNat(_)
ParseNat(chars) ==
    IF chars = << >> THEN 0
    ELSE 10 * ParseNat(SubSeq(chars, 1, Len(chars) - 1)) + DigitValue(chars[Len(chars)])

\* the characters of a request that are no leading or trailing blanks
Inner(line) ==
    LET kept == {j \in 1..Len(line) : line[j] # Space}
    IN  IF kept = {} THEN << >>
        ELSE SubSeq(line, CHOOSE j \in kept : \A h \in kept : j <= h,
                          CHOOSE j \in kept : \A h \in kept : h <= j)

\* an answer of the form count|i.fff, count the number of pieces of the request and
\* i.fff within half a thousandth of count / length
IsScoreAnswer(answer, line) ==
    \E bar \in 2..(Len(answer) - 5) :
        /\ answer[bar] = "|"
        /\ answer[Len(answer) - 3] = "."
        /\ IsDigits(SubSeq(answer, 1, bar - 1))
        /\ IsDigits(SubSeq(answer, bar + 1, Len(answer) - 4))
        /\ IsDigits(SubSeq(answer, Len(answer) - 2, Len(answer)))
        /\ LET count == ParseNat(SubSeq(answer, 1, bar - 1))
               milli == 1000 * ParseNat(SubSeq(answer, bar + 1, Len(answer) - 4))
                        + ParseNat(SubSeq(answer, Len(answer) - 2, Len(answer)))
               length == Len(Inner(line))
           IN  /\ count = Len(EncodeAsPieces(Inner(line)))
               /\ 2 * Abs(milli * length - 1000 * count) <= length

\* C30: after every request read, standard output holds exactly one flushed line per
\* request read, in the order of the requests: 0 for a request that is empty after
\* stripping, count|score with the score to three decimals for any other.
C30_OneAnswerPerRequest ==
    /\ bpe.pending = << >>
    /\ Len(bpe.stdout) = bpe.read
    /\ \A j \in 1..bpe.read :
          IF Inner(bpe.input[j]) = << >> THEN bpe.stdout[j] = <<"0">>
          ELSE IsScoreAnswer(bpe.stdout[j], bpe.input[j])

\* C30 witness: a blank request was answered with 0 and then a request of three
\* letters between blanks with 2|0.667, before the end of input was seen
C30_Witness ==
    /\ bpe.step = "serving"
    /\ bpe.input = << <<Space, Space>>, <<Space, "a", "b", "a", Space>> >>
    /\ bpe.read = 2
    /\ bpe.stdout = << <<"0">>, <<"2", "|", "0", ".", "6", "6", "7">> >>

====
